---- MODULE Spec2Model ----
(***************************************************************************)
(* State machine of the FeedbackApp component (src/src/pages/Index.tsx).   *)
(*                                                                         *)
(* Text that the code trims, lower-cases or searches is a sequence of      *)
(* one-character strings; values the code only compares for equality       *)
(* (view names, sort keys, stat-card names, alert texts) are TLA+ strings. *)
(* `now` is the latest reading of the millisecond clock; a Feedback's id   *)
(* and timestamp are two readings of it, the second not before the first   *)
(* (toISOString and new Date(...) keep the millisecond value).  `alertMsg` *)
(* is the text of the alert() raised by the last event ("none" when it     *)
(* raised none) and `lastOp` the useCallback                                *)
(* handler of FeedbackApp that served it ("none" for the mount effect and  *)
(* for inline arrow handlers that only call state setters).                *)
(***************************************************************************)
EXTENDS Integers, Sequences, FiniteSets, TLC

VARIABLES teachers, currentView, selectedTeacher, anonymousId, feedbackData,
          filterDepartment, sortBy, searchQuery, showSearch, activeStatsCard,
          feedbackText, feedbackRating, rendered, mounted, now, alertMsg, lastOp

vars == <<teachers, currentView, selectedTeacher, anonymousId, feedbackData,
          filterDepartment, sortBy, searchQuery, showSearch, activeStatsCard,
          feedbackText, feedbackRating, rendered, mounted, now, alertMsg, lastOp>>

formVars == <<feedbackText, feedbackRating>>
filterVars == <<filterDepartment, sortBy, searchQuery, showSearch, activeStatsCard>>

-----------------------------------------------------------------------------
(* Bounds of the exploration *)

\* total number of Feedback entries a behaviour may store
MaxFeedback == 2
\* greatest reading (ms) of the clock
MaxClock == 1

-----------------------------------------------------------------------------
(* Characters and strings *)

Uppers == <<"A","B","C","D","E","F","G","H","I","J","K","L","M",
            "N","O","P","Q","R","S","T","U","V","W","X","Y","Z">>
Lowers == <<"a","b","c","d","e","f","g","h","i","j","k","l","m",
            "n","o","p","q","r","s","t","u","v","w","x","y","z">>
Digits == <<"0","1","2","3","4","5","6","7","8","9">>

\* the white space and line terminators that String.prototype.trim strips,
\* as far as a string of this module can hold them: space, tab, line feed,
\* carriage return, form feed, vertical tab (U+000B), no-break space
\* (U+00A0), ogham space mark (U+1680) and byte order mark (U+FEFF)
WhiteSpace == {" ", "\t", "\n", "\r", "\f", "", " ", " ", "﻿"}

IsWhitespace(c) == c \in WhiteSpace

\* String.prototype.toLowerCase follows the Unicode case mapping, here that
\* of Unicode 17.0. A character is a string of this module: the character
\* itself, or, for a small letter (general category Ll) that the text of a
\* module cannot hold, its code point written as in "U+0253". OtherUppers
\* lists, after A-Z, every character a module can hold that toLowerCase
\* changes, and OtherLowers what it becomes.
OtherUppers == <<"À", "Á", "Â", "Ã", "Ä", "Å", "Æ", "Ç", "È", "É", "Ê", "Ë",
                 "Ì", "Í", "Î", "Ï", "Ð", "Ñ", "Ò", "Ó", "Ô", "Õ", "Ö", "Ø",
                 "Ù", "Ú", "Û", "Ü", "Ý", "Þ", "Ɓ", "Ƃ", "Ƅ", "Ɔ", "Ƈ", "Ɖ",
                 "Ɗ", "Ƌ", "Ǝ", "Ə", "Ɛ", "Ƒ", "Ɠ", "Ɣ", "Ɩ", "Ɨ", "Ƙ", "Ɯ",
                 "Ɲ", "Ɵ", "Ơ", "Ƣ", "Ƥ", "Ʀ", "Ƨ", "Ʃ", "Ƭ", "Ʈ", "Ư", "Ʊ",
                 "Ʋ", "Ƴ", "Ƶ", "Ʒ", "Ƹ", "Ƽ", "Ǆ", "ǅ", "Ǉ", "ǈ", "Ǌ", "ǋ",
                 "Ǎ", "Ǐ", "Ǒ", "Ǔ", "Ǖ", "Ǘ", "Ǚ", "Ǜ", "Ǟ", "Ǡ", "Ǣ", "Ǥ",
                 "Ǧ", "Ǩ", "Ǫ", "Ǭ", "Ǯ", "Ǳ", "ǲ", "Ǵ", "Ƕ", "Ƿ", "Ǹ", "Ǻ",
                 "Ǽ", "Ǿ", "Ά", "Έ", "Ή", "Ί", "Ό", "Ύ", "Ώ", "Α", "Β", "Γ",
                 "Δ", "Ε", "Ζ", "Η", "Θ", "Ι", "Κ", "Λ", "Μ", "Ν", "Ξ", "Ο",
                 "Π", "Ρ", "Σ", "Τ", "Υ", "Φ", "Χ", "Ψ", "Ω", "Ϊ", "Ϋ", "Ϗ",
                 "Ϙ", "Ϛ", "Ϝ", "Ϟ", "Ϡ", "Ϣ", "Ϥ", "Ϧ", "Ϩ", "Ϫ", "Ϭ", "Ϯ",
                 "ϴ", "Ϸ", "Ϲ", "Ϻ", "Ͻ", "Ͼ", "Ͽ", "Ҁ", "Ҋ", "Ҍ", "Ҏ", "Ґ",
                 "Ғ", "Ҕ", "Җ", "Ҙ", "Қ", "Ҝ", "Ҟ", "Ҡ", "Ң", "Ҥ", "Ҧ", "Ҩ",
                 "Ҫ", "Ҭ", "Ү", "Ұ", "Ҳ", "Ҵ", "Ҷ", "Ҹ", "Һ", "Ҽ", "Ҿ", "Ӏ",
                 "Ӂ", "Ӄ", "Ӆ", "Ӈ", "Ӊ", "Ӌ", "Ӎ", "Ӑ", "Ӓ", "Ӕ", "Ӗ", "Ә",
                 "Ӛ", "Ӝ", "Ӟ", "Ӡ", "Ӣ", "Ӥ", "Ӧ", "Ө", "Ӫ", "Ӭ", "Ӯ", "Ӱ",
                 "Ӳ", "Ӵ", "Ӷ", "Ӹ", "Ӻ", "Ӽ", "Ӿ", "Ⴀ", "Ⴁ", "Ⴂ", "Ⴃ", "Ⴄ",
                 "Ⴅ", "Ⴆ", "Ⴇ", "Ⴈ", "Ⴉ", "Ⴊ", "Ⴋ", "Ⴌ", "Ⴍ", "Ⴎ", "Ⴏ", "Ⴐ",
                 "Ⴑ", "Ⴒ", "Ⴓ", "Ⴔ", "Ⴕ", "Ⴖ", "Ⴗ", "Ⴘ", "Ⴙ", "Ⴚ", "Ⴛ", "Ⴜ",
                 "Ⴝ", "Ⴞ", "Ⴟ", "Ⴠ", "Ⴡ", "Ⴢ", "Ⴣ", "Ⴤ", "Ⴥ", "Ⴧ", "Ⴭ", "Ꭰ",
                 "Ꭱ", "Ꭲ", "Ꭳ", "Ꭴ", "Ꭵ", "Ꭶ", "Ꭷ", "Ꭸ", "Ꭹ", "Ꭺ", "Ꭻ", "Ꭼ",
                 "Ꭽ", "Ꭾ", "Ꭿ", "Ꮀ", "Ꮁ", "Ꮂ", "Ꮃ", "Ꮄ", "Ꮅ", "Ꮆ", "Ꮇ", "Ꮈ",
                 "Ꮉ", "Ꮊ", "Ꮋ", "Ꮌ", "Ꮍ", "Ꮎ", "Ꮏ", "Ꮐ", "Ꮑ", "Ꮒ", "Ꮓ", "Ꮔ",
                 "Ꮕ", "Ꮖ", "Ꮗ", "Ꮘ", "Ꮙ", "Ꮚ", "Ꮛ", "Ꮜ", "Ꮝ", "Ꮞ", "Ꮟ", "Ꮠ",
                 "Ꮡ", "Ꮢ", "Ꮣ", "Ꮤ", "Ꮥ", "Ꮦ", "Ꮧ", "Ꮨ", "Ꮩ", "Ꮪ", "Ꮫ", "Ꮬ",
                 "Ꮭ", "Ꮮ", "Ꮯ", "Ꮰ", "Ꮱ", "Ꮲ", "Ꮳ", "Ꮴ", "Ꮵ", "Ꮶ", "Ꮷ", "Ꮸ",
                 "Ꮹ", "Ꮺ", "Ꮻ", "Ꮼ", "Ꮽ", "Ꮾ", "Ꮿ", "Ᏸ", "Ᏹ", "Ᏺ", "Ᏻ", "Ᏼ",
                 "Ᏽ", "Ᲊ", "Ა", "Ბ", "Გ", "Დ", "Ე", "Ვ", "Ზ", "Თ", "Ი", "Კ",
                 "Ლ", "Მ", "Ნ", "Ო", "Პ", "Ჟ", "Რ", "Ს", "Ტ", "Უ", "Ფ", "Ქ",
                 "Ღ", "Ყ", "Შ", "Ჩ", "Ც", "Ძ", "Წ", "Ჭ", "Ხ", "Ჯ", "Ჰ", "Ჱ",
                 "Ჲ", "Ჳ", "Ჴ", "Ჵ", "Ჶ", "Ჷ", "Ჸ", "Ჹ", "Ჺ", "Ჽ", "Ჾ", "Ჿ",
                 "Ẁ", "Ẃ", "Ẅ", "Ẇ", "Ẉ", "Ẋ", "Ẍ", "Ẏ", "Ẑ", "Ẓ", "Ẕ", "ẞ",
                 "Ạ", "Ả", "Ấ", "Ầ", "Ẩ", "Ẫ", "Ậ", "Ắ", "Ằ", "Ẳ", "Ẵ", "Ặ",
                 "Ẹ", "Ẻ", "Ẽ", "Ế", "Ề", "Ể", "Ễ", "Ệ", "Ỉ", "Ị", "Ọ", "Ỏ",
                 "Ố", "Ồ", "Ổ", "Ỗ", "Ộ", "Ớ", "Ờ", "Ở", "Ỡ", "Ợ", "Ụ", "Ủ",
                 "Ứ", "Ừ", "Ử", "Ữ", "Ự", "Ỳ", "Ỵ", "Ỷ", "Ỹ", "Ỻ", "Ỽ", "Ỿ",
                 "ᾈ", "ᾉ", "ᾊ", "ᾋ", "ᾌ", "ᾍ", "ᾎ", "ᾏ", "ᾘ", "ᾙ", "ᾚ", "ᾛ",
                 "ᾜ", "ᾝ", "ᾞ", "ᾟ", "ᾨ", "ᾩ", "ᾪ", "ᾫ", "ᾬ", "ᾭ", "ᾮ", "ᾯ",
                 "Ᾰ", "Ᾱ", "Ὰ", "Ά", "ᾼ", "Ὲ", "Έ", "Ὴ", "Ή", "ῌ", "Ῐ", "Ῑ",
                 "Ὶ", "Ί", "Ῠ", "Ῡ", "Ὺ", "Ύ", "Ῥ", "Ὸ", "Ό", "Ὼ", "Ώ", "ῼ",
                 "Ↄ", "Ⓐ", "Ⓑ", "Ⓒ", "Ⓓ", "Ⓔ", "Ⓕ", "Ⓖ", "Ⓗ", "Ⓘ", "Ⓙ", "Ⓚ",
                 "Ⓛ", "Ⓜ", "Ⓝ", "Ⓞ", "Ⓟ", "Ⓠ", "Ⓡ", "Ⓢ", "Ⓣ", "Ⓤ", "Ⓥ", "Ⓦ",
                 "Ⓧ", "Ⓨ", "Ⓩ", "Ⲁ", "Ⲃ", "Ⲅ", "Ⲇ", "Ⲉ", "Ⲋ", "Ⲍ", "Ⲏ", "Ⲑ",
                 "Ⲓ", "Ⲕ", "Ⲗ", "Ⲙ", "Ⲛ", "Ⲝ", "Ⲟ", "Ⲡ", "Ⲣ", "Ⲥ", "Ⲧ", "Ⲩ",
                 "Ⲫ", "Ⲭ", "Ⲯ", "Ⲱ", "Ⲳ", "Ⲵ", "Ⲷ", "Ⲹ", "Ⲻ", "Ⲽ", "Ⲿ", "Ⳁ",
                 "Ⳃ", "Ⳅ", "Ⳇ", "Ⳉ", "Ⳋ", "Ⳍ", "Ⳏ", "Ⳑ", "Ⳓ", "Ⳕ", "Ⳗ", "Ⳙ",
                 "Ⳛ", "Ⳝ", "Ⳟ", "Ⳡ", "Ⳣ", "Ⳬ", "Ⳮ", "Ⳳ", "Ꚁ", "Ꚃ", "Ꚅ", "Ꚇ",
                 "Ꚉ", "Ꚋ", "Ꚍ", "Ꚏ", "Ꚑ", "Ꚓ", "Ꚕ", "Ꚗ", "Ꚙ", "Ꚛ", "Ꞁ", "Ꞃ",
                 "Ꞅ", "Ꞇ", "Ꞌ", "Ɥ", "Ꞑ", "Ꞓ", "Ꞗ", "Ꞙ", "Ꞛ", "Ꞝ", "Ꞟ", "Ꞡ",
                 "Ꞣ", "Ꞥ", "Ꞧ", "Ꞩ", "Ɦ", "Ɜ", "Ɡ", "Ɬ", "Ɪ", "Ʞ", "Ʇ", "Ʝ",
                 "Ꭓ", "Ꞵ", "Ꞷ", "Ꞹ", "Ꞻ", "Ꞽ", "Ꞿ", "Ꟁ", "Ꟃ", "Ꞔ", "Ʂ", "Ᶎ",
                 "Ꟈ", "Ꟊ", "Ɤ", "Ꟍ", "꟎", "Ꟑ", "꟒", "꟔", "Ꟗ", "Ꟙ", "Ꟛ", "Ƛ",
                 "Ꟶ">>

OtherLowers == <<"à", "á", "â", "ã", "ä", "å", "æ", "ç", "è", "é", "ê", "ë",
                 "ì", "í", "î", "ï", "ð", "ñ", "ò", "ó", "ô", "õ", "ö", "ø",
                 "ù", "ú", "û", "ü", "ý", "þ", "U+0253", "ƃ", "ƅ", "U+0254", "ƈ", "U+0256",
                 "U+0257", "ƌ", "ǝ", "U+0259", "U+025B", "ƒ", "U+0260", "U+0263", "U+0269", "U+0268", "ƙ", "U+026F",
                 "U+0272", "U+0275", "ơ", "ƣ", "ƥ", "ʀ", "ƨ", "ʃ", "ƭ", "ʈ", "ư", "ʊ",
                 "ʋ", "ƴ", "ƶ", "ʒ", "ƹ", "ƽ", "ǆ", "ǆ", "ǉ", "ǉ", "ǌ", "ǌ",
                 "ǎ", "ǐ", "ǒ", "ǔ", "ǖ", "ǘ", "ǚ", "ǜ", "ǟ", "ǡ", "ǣ", "ǥ",
                 "ǧ", "ǩ", "ǫ", "ǭ", "ǯ", "ǳ", "ǳ", "ǵ", "ƕ", "ƿ", "ǹ", "ǻ",
                 "ǽ", "ǿ", "ά", "έ", "ή", "ί", "ό", "ύ", "ώ", "α", "β", "γ",
                 "δ", "ε", "ζ", "η", "θ", "ι", "κ", "λ", "μ", "ν", "ξ", "ο",
                 "π", "ρ", "σ", "τ", "υ", "φ", "χ", "ψ", "ω", "ϊ", "ϋ", "ϗ",
                 "ϙ", "ϛ", "ϝ", "ϟ", "ϡ", "ϣ", "ϥ", "ϧ", "ϩ", "ϫ", "ϭ", "ϯ",
                 "θ", "ϸ", "ϲ", "ϻ", "U+037B", "U+037C", "U+037D", "ҁ", "ҋ", "ҍ", "ҏ", "ґ",
                 "ғ", "ҕ", "җ", "ҙ", "қ", "ҝ", "ҟ", "ҡ", "ң", "ҥ", "ҧ", "ҩ",
                 "ҫ", "ҭ", "ү", "ұ", "ҳ", "ҵ", "ҷ", "ҹ", "һ", "ҽ", "ҿ", "ӏ",
                 "ӂ", "ӄ", "ӆ", "ӈ", "ӊ", "ӌ", "ӎ", "ӑ", "ӓ", "ӕ", "ӗ", "ә",
                 "ӛ", "ӝ", "ӟ", "ӡ", "ӣ", "ӥ", "ӧ", "ө", "ӫ", "ӭ", "ӯ", "ӱ",
                 "ӳ", "ӵ", "ӷ", "ӹ", "ӻ", "ӽ", "ӿ", "U+2D00", "U+2D01", "U+2D02", "U+2D03", "U+2D04",
                 "U+2D05", "U+2D06", "U+2D07", "U+2D08", "U+2D09", "U+2D0A", "U+2D0B", "U+2D0C", "U+2D0D", "U+2D0E", "U+2D0F", "U+2D10",
                 "U+2D11", "U+2D12", "U+2D13", "U+2D14", "U+2D15", "U+2D16", "U+2D17", "U+2D18", "U+2D19", "U+2D1A", "U+2D1B", "U+2D1C",
                 "U+2D1D", "U+2D1E", "U+2D1F", "U+2D20", "U+2D21", "U+2D22", "U+2D23", "U+2D24", "U+2D25", "U+2D27", "U+2D2D", "U+AB70",
                 "U+AB71", "U+AB72", "U+AB73", "U+AB74", "U+AB75", "U+AB76", "U+AB77", "U+AB78", "U+AB79", "U+AB7A", "U+AB7B", "U+AB7C",
                 "U+AB7D", "U+AB7E", "U+AB7F", "ꮀ", "ꮁ", "ꮂ", "ꮃ", "ꮄ", "ꮅ", "ꮆ", "ꮇ", "ꮈ",
                 "ꮉ", "ꮊ", "ꮋ", "ꮌ", "ꮍ", "ꮎ", "ꮏ", "ꮐ", "ꮑ", "ꮒ", "ꮓ", "ꮔ",
                 "ꮕ", "ꮖ", "ꮗ", "ꮘ", "ꮙ", "ꮚ", "ꮛ", "ꮜ", "ꮝ", "ꮞ", "ꮟ", "ꮠ",
                 "ꮡ", "ꮢ", "ꮣ", "ꮤ", "ꮥ", "ꮦ", "ꮧ", "ꮨ", "ꮩ", "ꮪ", "ꮫ", "ꮬ",
                 "ꮭ", "ꮮ", "ꮯ", "ꮰ", "ꮱ", "ꮲ", "ꮳ", "ꮴ", "ꮵ", "ꮶ", "ꮷ", "ꮸ",
                 "ꮹ", "ꮺ", "ꮻ", "ꮼ", "ꮽ", "ꮾ", "ꮿ", "ᏸ", "ᏹ", "ᏺ", "ᏻ", "ᏼ",
                 "ᏽ", "ᲊ", "ა", "ბ", "გ", "დ", "ე", "ვ", "ზ", "თ", "ი", "კ",
                 "ლ", "მ", "ნ", "ო", "პ", "ჟ", "რ", "ს", "ტ", "უ", "ფ", "ქ",
                 "ღ", "ყ", "შ", "ჩ", "ც", "ძ", "წ", "ჭ", "ხ", "ჯ", "ჰ", "ჱ",
                 "ჲ", "ჳ", "ჴ", "ჵ", "ჶ", "ჷ", "ჸ", "ჹ", "ჺ", "ჽ", "ჾ", "ჿ",
                 "ẁ", "ẃ", "ẅ", "ẇ", "ẉ", "ẋ", "ẍ", "ẏ", "ẑ", "ẓ", "ẕ", "ß",
                 "ạ", "ả", "ấ", "ầ", "ẩ", "ẫ", "ậ", "ắ", "ằ", "ẳ", "ẵ", "ặ",
                 "ẹ", "ẻ", "ẽ", "ế", "ề", "ể", "ễ", "ệ", "ỉ", "ị", "ọ", "ỏ",
                 "ố", "ồ", "ổ", "ỗ", "ộ", "ớ", "ờ", "ở", "ỡ", "ợ", "ụ", "ủ",
                 "ứ", "ừ", "ử", "ữ", "ự", "ỳ", "ỵ", "ỷ", "ỹ", "ỻ", "ỽ", "ỿ",
                 "ᾀ", "ᾁ", "ᾂ", "ᾃ", "ᾄ", "ᾅ", "ᾆ", "ᾇ", "ᾐ", "ᾑ", "ᾒ", "ᾓ",
                 "ᾔ", "ᾕ", "ᾖ", "ᾗ", "ᾠ", "ᾡ", "ᾢ", "ᾣ", "ᾤ", "ᾥ", "ᾦ", "ᾧ",
                 "ᾰ", "ᾱ", "U+1F70", "U+1F71", "ᾳ", "U+1F72", "U+1F73", "U+1F74", "U+1F75", "ῃ", "ῐ", "ῑ",
                 "U+1F76", "U+1F77", "ῠ", "ῡ", "U+1F7A", "U+1F7B", "ῥ", "U+1F78", "U+1F79", "U+1F7C", "U+1F7D", "ῳ",
                 "ↄ", "ⓐ", "ⓑ", "ⓒ", "ⓓ", "ⓔ", "ⓕ", "ⓖ", "ⓗ", "ⓘ", "ⓙ", "ⓚ",
                 "ⓛ", "ⓜ", "ⓝ", "ⓞ", "ⓟ", "ⓠ", "ⓡ", "ⓢ", "ⓣ", "ⓤ", "ⓥ", "ⓦ",
                 "ⓧ", "ⓨ", "ⓩ", "ⲁ", "ⲃ", "ⲅ", "ⲇ", "ⲉ", "ⲋ", "ⲍ", "ⲏ", "ⲑ",
                 "ⲓ", "ⲕ", "ⲗ", "ⲙ", "ⲛ", "ⲝ", "ⲟ", "ⲡ", "ⲣ", "ⲥ", "ⲧ", "ⲩ",
                 "ⲫ", "ⲭ", "ⲯ", "ⲱ", "ⲳ", "ⲵ", "ⲷ", "ⲹ", "ⲻ", "ⲽ", "ⲿ", "ⳁ",
                 "ⳃ", "ⳅ", "ⳇ", "ⳉ", "ⳋ", "ⳍ", "ⳏ", "ⳑ", "ⳓ", "ⳕ", "ⳗ", "ⳙ",
                 "ⳛ", "ⳝ", "ⳟ", "ⳡ", "ⳣ", "ⳬ", "ⳮ", "ⳳ", "ꚁ", "ꚃ", "ꚅ", "ꚇ",
                 "ꚉ", "ꚋ", "ꚍ", "ꚏ", "ꚑ", "ꚓ", "ꚕ", "ꚗ", "ꚙ", "ꚛ", "ꞁ", "ꞃ",
                 "ꞅ", "ꞇ", "ꞌ", "U+0265", "ꞑ", "ꞓ", "ꞗ", "ꞙ", "ꞛ", "ꞝ", "ꞟ", "ꞡ",
                 "ꞣ", "ꞥ", "ꞧ", "ꞩ", "U+0266", "U+025C", "U+0261", "U+026C", "U+026A", "ʞ", "ʇ", "ʝ",
                 "U+AB53", "ꞵ", "ꞷ", "ꞹ", "ꞻ", "ꞽ", "ꞿ", "ꟁ", "ꟃ", "ꞔ", "ʂ", "ᶎ",
                 "ꟈ", "ꟊ", "U+0264", "ꟍ", "꟏", "ꟑ", "ꟓ", "ꟕ", "ꟗ", "ꟙ", "ꟛ", "ƛ",
                 "ꟶ">>

UpperCase == Uppers \o OtherUppers
LowerCase == Lowers \o OtherLowers

\* the lower-case mapping of single characters
lowerOf ==
  [c \in {UpperCase[i] : i \in 1..Len(UpperCase)} |->
     LowerCase[CHOOSE i \in 1..Len(UpperCase) : UpperCase[i] = c]]

\* toLowerCase changes the character
IsUpper(c) == c \in DOMAIN lowerOf
IsLower(c) == \E i \in 1..Len(Lowers) : Lowers[i] = c

toLowerCaseChar(c) == IF IsUpper(c) THEN lowerOf[c] ELSE c

\* the characters with the Unicode property Cased: those a module can hold,
\* then the small letters written by their code points
Cased == {"A", "B", "C", "D", "E", "F", "G", "H", "I", "J", "K", "L",
          "M", "N", "O", "P", "Q", "R", "S", "T", "U", "V", "W", "X",
          "Y", "Z", "a", "b", "c", "d", "e", "f", "g", "h", "i", "j",
          "k", "l", "m", "n", "o", "p", "q", "r", "s", "t", "u", "v",
          "w", "x", "y", "z", "ª", "µ", "º", "À", "Á", "Â", "Ã", "Ä",
          "Å", "Æ", "Ç", "È", "É", "Ê", "Ë", "Ì", "Í", "Î", "Ï", "Ð",
          "Ñ", "Ò", "Ó", "Ô", "Õ", "Ö", "Ø", "Ù", "Ú", "Û", "Ü", "Ý",
          "Þ", "ß", "à", "á", "â", "ã", "ä", "å", "æ", "ç", "è", "é",
          "ê", "ë", "ì", "í", "î", "ï", "ð", "ñ", "ò", "ó", "ô", "õ",
          "ö", "ø", "ù", "ú", "û", "ü", "ý", "þ", "ÿ", "ƀ", "Ɓ", "Ƃ",
          "ƃ", "Ƅ", "ƅ", "Ɔ", "Ƈ", "ƈ", "Ɖ", "Ɗ", "Ƌ", "ƌ", "ƍ", "Ǝ",
          "Ə", "Ɛ", "Ƒ", "ƒ", "Ɠ", "Ɣ", "ƕ", "Ɩ", "Ɨ", "Ƙ", "ƙ", "ƚ",
          "ƛ", "Ɯ", "Ɲ", "ƞ", "Ɵ", "Ơ", "ơ", "Ƣ", "ƣ", "Ƥ", "ƥ", "Ʀ",
          "Ƨ", "ƨ", "Ʃ", "ƪ", "ƫ", "Ƭ", "ƭ", "Ʈ", "Ư", "ư", "Ʊ", "Ʋ",
          "Ƴ", "ƴ", "Ƶ", "ƶ", "Ʒ", "Ƹ", "ƹ", "ƺ", "Ƽ", "ƽ", "ƾ", "ƿ",
          "Ǆ", "ǅ", "ǆ", "Ǉ", "ǈ", "ǉ", "Ǌ", "ǋ", "ǌ", "Ǎ", "ǎ", "Ǐ",
          "ǐ", "Ǒ", "ǒ", "Ǔ", "ǔ", "Ǖ", "ǖ", "Ǘ", "ǘ", "Ǚ", "ǚ", "Ǜ",
          "ǜ", "ǝ", "Ǟ", "ǟ", "Ǡ", "ǡ", "Ǣ", "ǣ", "Ǥ", "ǥ", "Ǧ", "ǧ",
          "Ǩ", "ǩ", "Ǫ", "ǫ", "Ǭ", "ǭ", "Ǯ", "ǯ", "ǰ", "Ǳ", "ǲ", "ǳ",
          "Ǵ", "ǵ", "Ƕ", "Ƿ", "Ǹ", "ǹ", "Ǻ", "ǻ", "Ǽ", "ǽ", "Ǿ", "ǿ",
          "ʀ", "ʁ", "ʂ", "ʃ", "ʄ", "ʅ", "ʆ", "ʇ", "ʈ", "ʉ", "ʊ", "ʋ",
          "ʌ", "ʍ", "ʎ", "ʏ", "ʐ", "ʑ", "ʒ", "ʓ", "ʖ", "ʗ", "ʘ", "ʙ",
          "ʚ", "ʛ", "ʜ", "ʝ", "ʞ", "ʟ", "ʠ", "ʡ", "ʢ", "ʣ", "ʤ", "ʥ",
          "ʦ", "ʧ", "ʨ", "ʩ", "ʪ", "ʫ", "ʬ", "ʭ", "ʮ", "ʯ", "ʰ", "ʱ",
          "ʲ", "ʳ", "ʴ", "ʵ", "ʶ", "ʷ", "ʸ", "ˀ", "ˁ", "ˠ", "ˡ", "ˢ",
          "ˣ", "ˤ", "Ά", "Έ", "Ή", "Ί", "Ό", "Ύ", "Ώ", "ΐ", "Α", "Β",
          "Γ", "Δ", "Ε", "Ζ", "Η", "Θ", "Ι", "Κ", "Λ", "Μ", "Ν", "Ξ",
          "Ο", "Π", "Ρ", "Σ", "Τ", "Υ", "Φ", "Χ", "Ψ", "Ω", "Ϊ", "Ϋ",
          "ά", "έ", "ή", "ί", "ΰ", "α", "β", "γ", "δ", "ε", "ζ", "η",
          "θ", "ι", "κ", "λ", "μ", "ν", "ξ", "ο", "π", "ρ", "ς", "σ",
          "τ", "υ", "φ", "χ", "ψ", "ω", "ϊ", "ϋ", "ό", "ύ", "ώ", "Ϗ",
          "ϐ", "ϑ", "ϒ", "ϓ", "ϔ", "ϕ", "ϖ", "ϗ", "Ϙ", "ϙ", "Ϛ", "ϛ",
          "Ϝ", "ϝ", "Ϟ", "ϟ", "Ϡ", "ϡ", "Ϣ", "ϣ", "Ϥ", "ϥ", "Ϧ", "ϧ",
          "Ϩ", "ϩ", "Ϫ", "ϫ", "Ϭ", "ϭ", "Ϯ", "ϯ", "ϰ", "ϱ", "ϲ", "ϳ",
          "ϴ", "ϵ", "Ϸ", "ϸ", "Ϲ", "Ϻ", "ϻ", "ϼ", "Ͻ", "Ͼ", "Ͽ", "Ҁ",
          "ҁ", "Ҋ", "ҋ", "Ҍ", "ҍ", "Ҏ", "ҏ", "Ґ", "ґ", "Ғ", "ғ", "Ҕ",
          "ҕ", "Җ", "җ", "Ҙ", "ҙ", "Қ", "қ", "Ҝ", "ҝ", "Ҟ", "ҟ", "Ҡ",
          "ҡ", "Ң", "ң", "Ҥ", "ҥ", "Ҧ", "ҧ", "Ҩ", "ҩ", "Ҫ", "ҫ", "Ҭ",
          "ҭ", "Ү", "ү", "Ұ", "ұ", "Ҳ", "ҳ", "Ҵ", "ҵ", "Ҷ", "ҷ", "Ҹ",
          "ҹ", "Һ", "һ", "Ҽ", "ҽ", "Ҿ", "ҿ", "Ӏ", "Ӂ", "ӂ", "Ӄ", "ӄ",
          "Ӆ", "ӆ", "Ӈ", "ӈ", "Ӊ", "ӊ", "Ӌ", "ӌ", "Ӎ", "ӎ", "ӏ", "Ӑ",
          "ӑ", "Ӓ", "ӓ", "Ӕ", "ӕ", "Ӗ", "ӗ", "Ә", "ә", "Ӛ", "ӛ", "Ӝ",
          "ӝ", "Ӟ", "ӟ", "Ӡ", "ӡ", "Ӣ", "ӣ", "Ӥ", "ӥ", "Ӧ", "ӧ", "Ө",
          "ө", "Ӫ", "ӫ", "Ӭ", "ӭ", "Ӯ", "ӯ", "Ӱ", "ӱ", "Ӳ", "ӳ", "Ӵ",
          "ӵ", "Ӷ", "ӷ", "Ӹ", "ӹ", "Ӻ", "ӻ", "Ӽ", "ӽ", "Ӿ", "ӿ", "ր",
          "ց", "ւ", "փ", "ք", "օ", "ֆ", "և", "ֈ", "Ⴀ", "Ⴁ", "Ⴂ", "Ⴃ",
          "Ⴄ", "Ⴅ", "Ⴆ", "Ⴇ", "Ⴈ", "Ⴉ", "Ⴊ", "Ⴋ", "Ⴌ", "Ⴍ", "Ⴎ", "Ⴏ",
          "Ⴐ", "Ⴑ", "Ⴒ", "Ⴓ", "Ⴔ", "Ⴕ", "Ⴖ", "Ⴗ", "Ⴘ", "Ⴙ", "Ⴚ", "Ⴛ",
          "Ⴜ", "Ⴝ", "Ⴞ", "Ⴟ", "Ⴠ", "Ⴡ", "Ⴢ", "Ⴣ", "Ⴤ", "Ⴥ", "Ⴧ", "Ⴭ",
          "ა", "ბ", "გ", "დ", "ე", "ვ", "ზ", "თ", "ი", "კ", "ლ", "მ",
          "ნ", "ო", "პ", "ჟ", "რ", "ს", "ტ", "უ", "ფ", "ქ", "ღ", "ყ",
          "შ", "ჩ", "ც", "ძ", "წ", "ჭ", "ხ", "ჯ", "ჰ", "ჱ", "ჲ", "ჳ",
          "ჴ", "ჵ", "ჶ", "ჷ", "ჸ", "ჹ", "ჺ", "ჼ", "ჽ", "ჾ", "ჿ", "Ꭰ",
          "Ꭱ", "Ꭲ", "Ꭳ", "Ꭴ", "Ꭵ", "Ꭶ", "Ꭷ", "Ꭸ", "Ꭹ", "Ꭺ", "Ꭻ", "Ꭼ",
          "Ꭽ", "Ꭾ", "Ꭿ", "Ꮀ", "Ꮁ", "Ꮂ", "Ꮃ", "Ꮄ", "Ꮅ", "Ꮆ", "Ꮇ", "Ꮈ",
          "Ꮉ", "Ꮊ", "Ꮋ", "Ꮌ", "Ꮍ", "Ꮎ", "Ꮏ", "Ꮐ", "Ꮑ", "Ꮒ", "Ꮓ", "Ꮔ",
          "Ꮕ", "Ꮖ", "Ꮗ", "Ꮘ", "Ꮙ", "Ꮚ", "Ꮛ", "Ꮜ", "Ꮝ", "Ꮞ", "Ꮟ", "Ꮠ",
          "Ꮡ", "Ꮢ", "Ꮣ", "Ꮤ", "Ꮥ", "Ꮦ", "Ꮧ", "Ꮨ", "Ꮩ", "Ꮪ", "Ꮫ", "Ꮬ",
          "Ꮭ", "Ꮮ", "Ꮯ", "Ꮰ", "Ꮱ", "Ꮲ", "Ꮳ", "Ꮴ", "Ꮵ", "Ꮶ", "Ꮷ", "Ꮸ",
          "Ꮹ", "Ꮺ", "Ꮻ", "Ꮼ", "Ꮽ", "Ꮾ", "Ꮿ", "Ᏸ", "Ᏹ", "Ᏺ", "Ᏻ", "Ᏼ",
          "Ᏽ", "ᏸ", "ᏹ", "ᏺ", "ᏻ", "ᏼ", "ᏽ", "ᲀ", "ᲁ", "ᲂ", "ᲃ", "ᲄ",
          "ᲅ", "ᲆ", "ᲇ", "ᲈ", "Ᲊ", "ᲊ", "Ა", "Ბ", "Გ", "Დ", "Ე", "Ვ",
          "Ზ", "Თ", "Ი", "Კ", "Ლ", "Მ", "Ნ", "Ო", "Პ", "Ჟ", "Რ", "Ს",
          "Ტ", "Უ", "Ფ", "Ქ", "Ღ", "Ყ", "Შ", "Ჩ", "Ც", "Ძ", "Წ", "Ჭ",
          "Ხ", "Ჯ", "Ჰ", "Ჱ", "Ჲ", "Ჳ", "Ჴ", "Ჵ", "Ჶ", "Ჷ", "Ჸ", "Ჹ",
          "Ჺ", "Ჽ", "Ჾ", "Ჿ", "ᶀ", "ᶁ", "ᶂ", "ᶃ", "ᶄ", "ᶅ", "ᶆ", "ᶇ",
          "ᶈ", "ᶉ", "ᶊ", "ᶋ", "ᶌ", "ᶍ", "ᶎ", "ᶏ", "ᶐ", "ᶑ", "ᶒ", "ᶓ",
          "ᶔ", "ᶕ", "ᶖ", "ᶗ", "ᶘ", "ᶙ", "ᶚ", "ᶛ", "ᶜ", "ᶝ", "ᶞ", "ᶟ",
          "ᶠ", "ᶡ", "ᶢ", "ᶣ", "ᶤ", "ᶥ", "ᶦ", "ᶧ", "ᶨ", "ᶩ", "ᶪ", "ᶫ",
          "ᶬ", "ᶭ", "ᶮ", "ᶯ", "ᶰ", "ᶱ", "ᶲ", "ᶳ", "ᶴ", "ᶵ", "ᶶ", "ᶷ",
          "ᶸ", "ᶹ", "ᶺ", "ᶻ", "ᶼ", "ᶽ", "ᶾ", "ᶿ", "Ẁ", "ẁ", "Ẃ", "ẃ",
          "Ẅ", "ẅ", "Ẇ", "ẇ", "Ẉ", "ẉ", "Ẋ", "ẋ", "Ẍ", "ẍ", "Ẏ", "ẏ",
          "Ẑ", "ẑ", "Ẓ", "ẓ", "Ẕ", "ẕ", "ẖ", "ẗ", "ẘ", "ẙ", "ẚ", "ẛ",
          "ẜ", "ẝ", "ẞ", "ẟ", "Ạ", "ạ", "Ả", "ả", "Ấ", "ấ", "Ầ", "ầ",
          "Ẩ", "ẩ", "Ẫ", "ẫ", "Ậ", "ậ", "Ắ", "ắ", "Ằ", "ằ", "Ẳ", "ẳ",
          "Ẵ", "ẵ", "Ặ", "ặ", "Ẹ", "ẹ", "Ẻ", "ẻ", "Ẽ", "ẽ", "Ế", "ế",
          "Ề", "ề", "Ể", "ể", "Ễ", "ễ", "Ệ", "ệ", "Ỉ", "ỉ", "Ị", "ị",
          "Ọ", "ọ", "Ỏ", "ỏ", "Ố", "ố", "Ồ", "ồ", "Ổ", "ổ", "Ỗ", "ỗ",
          "Ộ", "ộ", "Ớ", "ớ", "Ờ", "ờ", "Ở", "ở", "Ỡ", "ỡ", "Ợ", "ợ",
          "Ụ", "ụ", "Ủ", "ủ", "Ứ", "ứ", "Ừ", "ừ", "Ử", "ử", "Ữ", "ữ",
          "Ự", "ự", "Ỳ", "ỳ", "Ỵ", "ỵ", "Ỷ", "ỷ", "Ỹ", "ỹ", "Ỻ", "ỻ",
          "Ỽ", "ỽ", "Ỿ", "ỿ", "ᾀ", "ᾁ", "ᾂ", "ᾃ", "ᾄ", "ᾅ", "ᾆ", "ᾇ",
          "ᾈ", "ᾉ", "ᾊ", "ᾋ", "ᾌ", "ᾍ", "ᾎ", "ᾏ", "ᾐ", "ᾑ", "ᾒ", "ᾓ",
          "ᾔ", "ᾕ", "ᾖ", "ᾗ", "ᾘ", "ᾙ", "ᾚ", "ᾛ", "ᾜ", "ᾝ", "ᾞ", "ᾟ",
          "ᾠ", "ᾡ", "ᾢ", "ᾣ", "ᾤ", "ᾥ", "ᾦ", "ᾧ", "ᾨ", "ᾩ", "ᾪ", "ᾫ",
          "ᾬ", "ᾭ", "ᾮ", "ᾯ", "ᾰ", "ᾱ", "ᾲ", "ᾳ", "ᾴ", "ᾶ", "ᾷ", "Ᾰ",
          "Ᾱ", "Ὰ", "Ά", "ᾼ", "ι", "ῂ", "ῃ", "ῄ", "ῆ", "ῇ", "Ὲ", "Έ",
          "Ὴ", "Ή", "ῌ", "ῐ", "ῑ", "ῒ", "ΐ", "ῖ", "ῗ", "Ῐ", "Ῑ", "Ὶ",
          "Ί", "ῠ", "ῡ", "ῢ", "ΰ", "ῤ", "ῥ", "ῦ", "ῧ", "Ῠ", "Ῡ", "Ὺ",
          "Ύ", "Ῥ", "ῲ", "ῳ", "ῴ", "ῶ", "ῷ", "Ὸ", "Ό", "Ὼ", "Ώ", "ῼ",
          "ₐ", "ₑ", "ₒ", "ₓ", "ₔ", "ₕ", "ₖ", "ₗ", "ₘ", "ₙ", "ₚ", "ₛ",
          "ₜ", "Ↄ", "ↄ", "Ⓐ", "Ⓑ", "Ⓒ", "Ⓓ", "Ⓔ", "Ⓕ", "Ⓖ", "Ⓗ", "Ⓘ",
          "Ⓙ", "Ⓚ", "Ⓛ", "Ⓜ", "Ⓝ", "Ⓞ", "Ⓟ", "Ⓠ", "Ⓡ", "Ⓢ", "Ⓣ", "Ⓤ",
          "Ⓥ", "Ⓦ", "Ⓧ", "Ⓨ", "Ⓩ", "ⓐ", "ⓑ", "ⓒ", "ⓓ", "ⓔ", "ⓕ", "ⓖ",
          "ⓗ", "ⓘ", "ⓙ", "ⓚ", "ⓛ", "ⓜ", "ⓝ", "ⓞ", "ⓟ", "ⓠ", "ⓡ", "ⓢ",
          "ⓣ", "ⓤ", "ⓥ", "ⓦ", "ⓧ", "ⓨ", "ⓩ", "Ⲁ", "ⲁ", "Ⲃ", "ⲃ", "Ⲅ",
          "ⲅ", "Ⲇ", "ⲇ", "Ⲉ", "ⲉ", "Ⲋ", "ⲋ", "Ⲍ", "ⲍ", "Ⲏ", "ⲏ", "Ⲑ",
          "ⲑ", "Ⲓ", "ⲓ", "Ⲕ", "ⲕ", "Ⲗ", "ⲗ", "Ⲙ", "ⲙ", "Ⲛ", "ⲛ", "Ⲝ",
          "ⲝ", "Ⲟ", "ⲟ", "Ⲡ", "ⲡ", "Ⲣ", "ⲣ", "Ⲥ", "ⲥ", "Ⲧ", "ⲧ", "Ⲩ",
          "ⲩ", "Ⲫ", "ⲫ", "Ⲭ", "ⲭ", "Ⲯ", "ⲯ", "Ⲱ", "ⲱ", "Ⲳ", "ⲳ", "Ⲵ",
          "ⲵ", "Ⲷ", "ⲷ", "Ⲹ", "ⲹ", "Ⲻ", "ⲻ", "Ⲽ", "ⲽ", "Ⲿ", "ⲿ", "Ⳁ",
          "ⳁ", "Ⳃ", "ⳃ", "Ⳅ", "ⳅ", "Ⳇ", "ⳇ", "Ⳉ", "ⳉ", "Ⳋ", "ⳋ", "Ⳍ",
          "ⳍ", "Ⳏ", "ⳏ", "Ⳑ", "ⳑ", "Ⳓ", "ⳓ", "Ⳕ", "ⳕ", "Ⳗ", "ⳗ", "Ⳙ",
          "ⳙ", "Ⳛ", "ⳛ", "Ⳝ", "ⳝ", "Ⳟ", "ⳟ", "Ⳡ", "ⳡ", "Ⳣ", "ⳣ", "ⳤ",
          "Ⳬ", "ⳬ", "Ⳮ", "ⳮ", "Ⳳ", "ⳳ", "Ꚁ", "ꚁ", "Ꚃ", "ꚃ", "Ꚅ", "ꚅ",
          "Ꚇ", "ꚇ", "Ꚉ", "ꚉ", "Ꚋ", "ꚋ", "Ꚍ", "ꚍ", "Ꚏ", "ꚏ", "Ꚑ", "ꚑ",
          "Ꚓ", "ꚓ", "Ꚕ", "ꚕ", "Ꚗ", "ꚗ", "Ꚙ", "ꚙ", "Ꚛ", "ꚛ", "ꚜ", "ꚝ",
          "Ꞁ", "ꞁ", "Ꞃ", "ꞃ", "Ꞅ", "ꞅ", "Ꞇ", "ꞇ", "Ꞌ", "ꞌ", "Ɥ", "ꞎ",
          "Ꞑ", "ꞑ", "Ꞓ", "ꞓ", "ꞔ", "ꞕ", "Ꞗ", "ꞗ", "Ꞙ", "ꞙ", "Ꞛ", "ꞛ",
          "Ꞝ", "ꞝ", "Ꞟ", "ꞟ", "Ꞡ", "ꞡ", "Ꞣ", "ꞣ", "Ꞥ", "ꞥ", "Ꞧ", "ꞧ",
          "Ꞩ", "ꞩ", "Ɦ", "Ɜ", "Ɡ", "Ɬ", "Ɪ", "ꞯ", "Ʞ", "Ʇ", "Ʝ", "Ꭓ",
          "Ꞵ", "ꞵ", "Ꞷ", "ꞷ", "Ꞹ", "ꞹ", "Ꞻ", "ꞻ", "Ꞽ", "ꞽ", "Ꞿ", "ꞿ",
          "Ꟁ", "ꟁ", "Ꟃ", "ꟃ", "Ꞔ", "Ʂ", "Ᶎ", "Ꟈ", "ꟈ", "Ꟊ", "ꟊ", "Ɤ",
          "Ꟍ", "ꟍ", "꟎", "꟏", "Ꟑ", "ꟑ", "꟒", "ꟓ", "꟔", "ꟕ", "Ꟗ", "ꟗ",
          "Ꟙ", "ꟙ", "Ꟛ", "ꟛ", "Ƛ", "꟱", "ꟲ", "ꟳ", "ꟴ", "Ꟶ", "ꟶ", "ꟸ",
          "ꟹ", "ꟺ", "ꮀ", "ꮁ", "ꮂ", "ꮃ", "ꮄ", "ꮅ", "ꮆ", "ꮇ", "ꮈ", "ꮉ",
          "ꮊ", "ꮋ", "ꮌ", "ꮍ", "ꮎ", "ꮏ", "ꮐ", "ꮑ", "ꮒ", "ꮓ", "ꮔ", "ꮕ",
          "ꮖ", "ꮗ", "ꮘ", "ꮙ", "ꮚ", "ꮛ", "ꮜ", "ꮝ", "ꮞ", "ꮟ", "ꮠ", "ꮡ",
          "ꮢ", "ꮣ", "ꮤ", "ꮥ", "ꮦ", "ꮧ", "ꮨ", "ꮩ", "ꮪ", "ꮫ", "ꮬ", "ꮭ",
          "ꮮ", "ꮯ", "ꮰ", "ꮱ", "ꮲ", "ꮳ", "ꮴ", "ꮵ", "ꮶ", "ꮷ", "ꮸ", "ꮹ",
          "ꮺ", "ꮻ", "ꮼ", "ꮽ", "ꮾ", "ꮿ", "U+0101", "U+0103", "U+0105", "U+0107", "U+0109", "U+010B",
          "U+010D", "U+010F", "U+0111", "U+0113", "U+0115", "U+0117", "U+0119", "U+011B", "U+011D", "U+011F", "U+0121", "U+0123",
          "U+0125", "U+0127", "U+0129", "U+012B", "U+012D", "U+012F", "U+0131", "U+0133", "U+0135", "U+0137", "U+0138", "U+013A",
          "U+013C", "U+013E", "U+0140", "U+0142", "U+0144", "U+0146", "U+0148", "U+0149", "U+014B", "U+014D", "U+014F", "U+0151",
          "U+0153", "U+0155", "U+0157", "U+0159", "U+015B", "U+015D", "U+015F", "U+0161", "U+0163", "U+0165", "U+0167", "U+0169",
          "U+016B", "U+016D", "U+016F", "U+0171", "U+0173", "U+0175", "U+0177", "U+017A", "U+017C", "U+017E", "U+017F", "U+0201",
          "U+0203", "U+0205", "U+0207", "U+0209", "U+020B", "U+020D", "U+020F", "U+0211", "U+0213", "U+0215", "U+0217", "U+0219",
          "U+021B", "U+021D", "U+021F", "U+0221", "U+0223", "U+0225", "U+0227", "U+0229", "U+022B", "U+022D", "U+022F", "U+0231",
          "U+0233", "U+0234", "U+0235", "U+0236", "U+0237", "U+0238", "U+0239", "U+023C", "U+023F", "U+0240", "U+0242", "U+0247",
          "U+0249", "U+024B", "U+024D", "U+024F", "U+0250", "U+0251", "U+0252", "U+0253", "U+0254", "U+0255", "U+0256", "U+0257",
          "U+0258", "U+0259", "U+025A", "U+025B", "U+025C", "U+025D", "U+025E", "U+025F", "U+0260", "U+0261", "U+0262", "U+0263",
          "U+0264", "U+0265", "U+0266", "U+0267", "U+0268", "U+0269", "U+026A", "U+026B", "U+026C", "U+026D", "U+026E", "U+026F",
          "U+0270", "U+0271", "U+0272", "U+0273", "U+0274", "U+0275", "U+0276", "U+0277", "U+0278", "U+0279", "U+027A", "U+027B",
          "U+027C", "U+027D", "U+027E", "U+027F", "U+0371", "U+0373", "U+0377", "U+037B", "U+037C", "U+037D", "U+0430", "U+0431",
          "U+0432", "U+0433", "U+0434", "U+0435", "U+0436", "U+0437", "U+0438", "U+0439", "U+043A", "U+043B", "U+043C", "U+043D",
          "U+043E", "U+043F", "U+0440", "U+0441", "U+0442", "U+0443", "U+0444", "U+0445", "U+0446", "U+0447", "U+0448", "U+0449",
          "U+044A", "U+044B", "U+044C", "U+044D", "U+044E", "U+044F", "U+0450", "U+0451", "U+0452", "U+0453", "U+0454", "U+0455",
          "U+0456", "U+0457", "U+0458", "U+0459", "U+045A", "U+045B", "U+045C", "U+045D", "U+045E", "U+045F", "U+0461", "U+0463",
          "U+0465", "U+0467", "U+0469", "U+046B", "U+046D", "U+046F", "U+0471", "U+0473", "U+0475", "U+0477", "U+0479", "U+047B",
          "U+047D", "U+047F", "U+0501", "U+0503", "U+0505", "U+0507", "U+0509", "U+050B", "U+050D", "U+050F", "U+0511", "U+0513",
          "U+0515", "U+0517", "U+0519", "U+051B", "U+051D", "U+051F", "U+0521", "U+0523", "U+0525", "U+0527", "U+0529", "U+052B",
          "U+052D", "U+052F", "U+0560", "U+0561", "U+0562", "U+0563", "U+0564", "U+0565", "U+0566", "U+0567", "U+0568", "U+0569",
          "U+056A", "U+056B", "U+056C", "U+056D", "U+056E", "U+056F", "U+0570", "U+0571", "U+0572", "U+0573", "U+0574", "U+0575",
          "U+0576", "U+0577", "U+0578", "U+0579", "U+057A", "U+057B", "U+057C", "U+057D", "U+057E", "U+057F", "U+1D00", "U+1D01",
          "U+1D02", "U+1D03", "U+1D04", "U+1D05", "U+1D06", "U+1D07", "U+1D08", "U+1D09", "U+1D0A", "U+1D0B", "U+1D0C", "U+1D0D",
          "U+1D0E", "U+1D0F", "U+1D10", "U+1D11", "U+1D12", "U+1D13", "U+1D14", "U+1D15", "U+1D16", "U+1D17", "U+1D18", "U+1D19",
          "U+1D1A", "U+1D1B", "U+1D1C", "U+1D1D", "U+1D1E", "U+1D1F", "U+1D20", "U+1D21", "U+1D22", "U+1D23", "U+1D24", "U+1D25",
          "U+1D26", "U+1D27", "U+1D28", "U+1D29", "U+1D2A", "U+1D2B", "U+1D6B", "U+1D6C", "U+1D6D", "U+1D6E", "U+1D6F", "U+1D70",
          "U+1D71", "U+1D72", "U+1D73", "U+1D74", "U+1D75", "U+1D76", "U+1D77", "U+1D79", "U+1D7A", "U+1D7B", "U+1D7C", "U+1D7D",
          "U+1D7E", "U+1D7F", "U+1E01", "U+1E03", "U+1E05", "U+1E07", "U+1E09", "U+1E0B", "U+1E0D", "U+1E0F", "U+1E11", "U+1E13",
          "U+1E15", "U+1E17", "U+1E19", "U+1E1B", "U+1E1D", "U+1E1F", "U+1E21", "U+1E23", "U+1E25", "U+1E27", "U+1E29", "U+1E2B",
          "U+1E2D", "U+1E2F", "U+1E31", "U+1E33", "U+1E35", "U+1E37", "U+1E39", "U+1E3B", "U+1E3D", "U+1E3F", "U+1E41", "U+1E43",
          "U+1E45", "U+1E47", "U+1E49", "U+1E4B", "U+1E4D", "U+1E4F", "U+1E51", "U+1E53", "U+1E55", "U+1E57", "U+1E59", "U+1E5B",
          "U+1E5D", "U+1E5F", "U+1E61", "U+1E63", "U+1E65", "U+1E67", "U+1E69", "U+1E6B", "U+1E6D", "U+1E6F", "U+1E71", "U+1E73",
          "U+1E75", "U+1E77", "U+1E79", "U+1E7B", "U+1E7D", "U+1E7F", "U+1F00", "U+1F01", "U+1F02", "U+1F03", "U+1F04", "U+1F05",
          "U+1F06", "U+1F07", "U+1F10", "U+1F11", "U+1F12", "U+1F13", "U+1F14", "U+1F15", "U+1F20", "U+1F21", "U+1F22", "U+1F23",
          "U+1F24", "U+1F25", "U+1F26", "U+1F27", "U+1F30", "U+1F31", "U+1F32", "U+1F33", "U+1F34", "U+1F35", "U+1F36", "U+1F37",
          "U+1F40", "U+1F41", "U+1F42", "U+1F43", "U+1F44", "U+1F45", "U+1F50", "U+1F51", "U+1F52", "U+1F53", "U+1F54", "U+1F55",
          "U+1F56", "U+1F57", "U+1F60", "U+1F61", "U+1F62", "U+1F63", "U+1F64", "U+1F65", "U+1F66", "U+1F67", "U+1F70", "U+1F71",
          "U+1F72", "U+1F73", "U+1F74", "U+1F75", "U+1F76", "U+1F77", "U+1F78", "U+1F79", "U+1F7A", "U+1F7B", "U+1F7C", "U+1F7D",
          "U+210A", "U+210E", "U+210F", "U+2113", "U+212F", "U+2134", "U+2139", "U+213C", "U+213D", "U+2146", "U+2147", "U+2148",
          "U+2149", "U+214E", "U+2C30", "U+2C31", "U+2C32", "U+2C33", "U+2C34", "U+2C35", "U+2C36", "U+2C37", "U+2C38", "U+2C39",
          "U+2C3A", "U+2C3B", "U+2C3C", "U+2C3D", "U+2C3E", "U+2C3F", "U+2C40", "U+2C41", "U+2C42", "U+2C43", "U+2C44", "U+2C45",
          "U+2C46", "U+2C47", "U+2C48", "U+2C49", "U+2C4A", "U+2C4B", "U+2C4C", "U+2C4D", "U+2C4E", "U+2C4F", "U+2C50", "U+2C51",
          "U+2C52", "U+2C53", "U+2C54", "U+2C55", "U+2C56", "U+2C57", "U+2C58", "U+2C59", "U+2C5A", "U+2C5B", "U+2C5C", "U+2C5D",
          "U+2C5E", "U+2C5F", "U+2C61", "U+2C65", "U+2C66", "U+2C68", "U+2C6A", "U+2C6C", "U+2C71", "U+2C73", "U+2C74", "U+2C76",
          "U+2C77", "U+2C78", "U+2C79", "U+2C7A", "U+2C7B", "U+2D00", "U+2D01", "U+2D02", "U+2D03", "U+2D04", "U+2D05", "U+2D06",
          "U+2D07", "U+2D08", "U+2D09", "U+2D0A", "U+2D0B", "U+2D0C", "U+2D0D", "U+2D0E", "U+2D0F", "U+2D10", "U+2D11", "U+2D12",
          "U+2D13", "U+2D14", "U+2D15", "U+2D16", "U+2D17", "U+2D18", "U+2D19", "U+2D1A", "U+2D1B", "U+2D1C", "U+2D1D", "U+2D1E",
          "U+2D1F", "U+2D20", "U+2D21", "U+2D22", "U+2D23", "U+2D24", "U+2D25", "U+2D27", "U+2D2D", "U+A641", "U+A643", "U+A645",
          "U+A647", "U+A649", "U+A64B", "U+A64D", "U+A64F", "U+A651", "U+A653", "U+A655", "U+A657", "U+A659", "U+A65B", "U+A65D",
          "U+A65F", "U+A661", "U+A663", "U+A665", "U+A667", "U+A669", "U+A66B", "U+A66D", "U+A723", "U+A725", "U+A727", "U+A729",
          "U+A72B", "U+A72D", "U+A72F", "U+A730", "U+A731", "U+A733", "U+A735", "U+A737", "U+A739", "U+A73B", "U+A73D", "U+A73F",
          "U+A741", "U+A743", "U+A745", "U+A747", "U+A749", "U+A74B", "U+A74D", "U+A74F", "U+A751", "U+A753", "U+A755", "U+A757",
          "U+A759", "U+A75B", "U+A75D", "U+A75F", "U+A761", "U+A763", "U+A765", "U+A767", "U+A769", "U+A76B", "U+A76D", "U+A76F",
          "U+A771", "U+A772", "U+A773", "U+A774", "U+A775", "U+A776", "U+A777", "U+A778", "U+A77A", "U+A77C", "U+A77F", "U+AB30",
          "U+AB31", "U+AB32", "U+AB33", "U+AB34", "U+AB35", "U+AB36", "U+AB37", "U+AB38", "U+AB39", "U+AB3A", "U+AB3B", "U+AB3C",
          "U+AB3D", "U+AB3E", "U+AB3F", "U+AB40", "U+AB41", "U+AB42", "U+AB43", "U+AB44", "U+AB45", "U+AB46", "U+AB47", "U+AB48",
          "U+AB49", "U+AB4A", "U+AB4B", "U+AB4C", "U+AB4D", "U+AB4E", "U+AB4F", "U+AB50", "U+AB51", "U+AB52", "U+AB53", "U+AB54",
          "U+AB55", "U+AB56", "U+AB57", "U+AB58", "U+AB59", "U+AB5A", "U+AB60", "U+AB61", "U+AB62", "U+AB63", "U+AB64", "U+AB65",
          "U+AB66", "U+AB67", "U+AB68", "U+AB70", "U+AB71", "U+AB72", "U+AB73", "U+AB74", "U+AB75", "U+AB76", "U+AB77", "U+AB78",
          "U+AB79", "U+AB7A", "U+AB7B", "U+AB7C", "U+AB7D", "U+AB7E", "U+AB7F", "U+FB00", "U+FB01", "U+FB02", "U+FB03", "U+FB04",
          "U+FB05", "U+FB06", "U+FB13", "U+FB14", "U+FB15", "U+FB16", "U+FB17", "U+FF41", "U+FF42", "U+FF43", "U+FF44", "U+FF45",
          "U+FF46", "U+FF47", "U+FF48", "U+FF49", "U+FF4A", "U+FF4B", "U+FF4C", "U+FF4D", "U+FF4E", "U+FF4F", "U+FF50", "U+FF51",
          "U+FF52", "U+FF53", "U+FF54", "U+FF55", "U+FF56", "U+FF57", "U+FF58", "U+FF59", "U+FF5A"}

\* the characters with the Unicode property Case_Ignorable; no small letter
\* written by its code point has it
CaseIgnorable == {"'", ".", ":", "^", "¨", "­", "¯", "´", "·", "¸", "ʰ", "ʱ",
                  "ʲ", "ʳ", "ʴ", "ʵ", "ʶ", "ʷ", "ʸ", "ʹ", "ʺ", "ʻ", "ʼ", "ʽ",
                  "ʾ", "ʿ", "ˀ", "ˁ", "˂", "˃", "˄", "˅", "ˆ", "ˇ", "ˈ", "ˉ",
                  "ˊ", "ˋ", "ˌ", "ˍ", "ˎ", "ˏ", "ː", "ˑ", "˒", "˓", "˔", "˕",
                  "˖", "˗", "˘", "˙", "˚", "˛", "˜", "˝", "˞", "˟", "ˠ", "ˡ",
                  "ˢ", "ˣ", "ˤ", "˥", "˦", "˧", "˨", "˩", "˪", "˫", "ˬ", "˭",
                  "ˮ", "˯", "˰", "˱", "˲", "˳", "˴", "˵", "˶", "˷", "˸", "˹",
                  "˺", "˻", "˼", "˽", "˾", "˿", "΄", "΅", "·", "҃", "҄", "҅",
                  "҆", "҇", "҈", "҉", "֑", "֒", "֓", "֔", "֕", "֖", "֗", "֘",
                  "֙", "֚", "֛", "֜", "֝", "֞", "֟", "֠", "֡", "֢", "֣", "֤",
                  "֥", "֦", "֧", "֨", "֩", "֪", "֫", "֬", "֭", "֮", "֯", "ְ",
                  "ֱ", "ֲ", "ֳ", "ִ", "ֵ", "ֶ", "ַ", "ָ", "ֹ", "ֺ", "ֻ", "ּ",
                  "ֽ", "ֿ", "ׁ", "ׂ", "ׄ", "ׅ", "ׇ", "״", "ۖ", "ۗ", "ۘ", "ۙ",
                  "ۚ", "ۛ", "ۜ", "۝", "۟", "۠", "ۡ", "ۢ", "ۣ", "ۤ", "ۥ", "ۦ",
                  "ۧ", "ۨ", "۪", "۫", "۬", "ۭ", "ަ", "ާ", "ި", "ީ", "ު", "ޫ",
                  "ެ", "ޭ", "ޮ", "ޯ", "ް", "߫", "߬", "߭", "߮", "߯", "߰", "߱",
                  "߲", "߳", "ߴ", "ߵ", "ߺ", "߽", "࢈", "࢐", "࢑", "ࢗ", "࢘", "࢙",
                  "࢚", "࢛", "࢜", "࢝", "࢞", "࢟", "ࣉ", "࣊", "࣋", "࣌", "࣍", "࣎",
                  "࣏", "࣐", "࣑", "࣒", "࣓", "ࣔ", "ࣕ", "ࣖ", "ࣗ", "ࣘ", "ࣙ", "ࣚ",
                  "ࣛ", "ࣜ", "ࣝ", "ࣞ", "ࣟ", "࣠", "࣡", "࣢", "ࣣ", "ࣤ", "ࣥ", "ࣦ",
                  "ࣧ", "ࣨ", "ࣩ", "࣪", "࣫", "࣬", "࣭", "࣮", "࣯", "ࣰ", "ࣱ", "ࣲ",
                  "ࣳ", "ࣴ", "ࣵ", "ࣶ", "ࣷ", "ࣸ", "ࣹ", "ࣺ", "ࣻ", "ࣼ", "ࣽ", "ࣾ",
                  "ࣿ", "ঁ", "়", "ু", "ূ", "ৃ", "ৄ", "্", "ৢ", "ৣ", "৾", "ઁ",
                  "ં", "઼", "ુ", "ૂ", "ૃ", "ૄ", "ૅ", "ે", "ૈ", "્", "ૢ", "ૣ",
                  "ૺ", "ૻ", "ૼ", "૽", "૾", "૿", "ஂ", "ீ", "்", "ಁ", "಼", "ಿ",
                  "ೆ", "ೌ", "್", "ೢ", "ೣ", "ඁ", "්", "ි", "ී", "ු", "ූ", "ັ",
                  "ິ", "ີ", "ຶ", "ື", "ຸ", "ູ", "຺", "ົ", "ຼ", "ໆ", "່", "້",
                  "໊", "໋", "໌", "ໍ", "໎", "ྀ", "ཱྀ", "ྂ", "ྃ", "྄", "྆", "྇",
                  "ྍ", "ྎ", "ྏ", "ྐ", "ྑ", "ྒ", "ྒྷ", "ྔ", "ྕ", "ྖ", "ྗ", "ྙ",
                  "ྚ", "ྛ", "ྜ", "ྜྷ", "ྞ", "ྟ", "ྠ", "ྡ", "ྡྷ", "ྣ", "ྤ", "ྥ",
                  "ྦ", "ྦྷ", "ྨ", "ྩ", "ྪ", "ྫ", "ྫྷ", "ྭ", "ྮ", "ྯ", "ྰ", "ྱ",
                  "ྲ", "ླ", "ྴ", "ྵ", "ྶ", "ྷ", "ྸ", "ྐྵ", "ྺ", "ྻ", "ྼ", "࿆",
                  "ႂ", "ႅ", "ႆ", "ႍ", "ႝ", "ჼ", "឴", "឵", "ិ", "ី", "ឹ", "ឺ",
                  "ុ", "ូ", "ួ", "ំ", "៉", "៊", "់", "៌", "៍", "៎", "៏", "័",
                  "៑", "្", "៓", "ៗ", "៝", "ᢅ", "ᢆ", "ᢩ", "ᪧ", "᪰", "᪱", "᪲",
                  "᪳", "᪴", "᪵", "᪶", "᪷", "᪸", "᪹", "᪺", "᪻", "᪼", "᪽", "᪾",
                  "ᪿ", "ᫀ", "᫁", "᫂", "᫃", "᫄", "᫅", "᫆", "᫇", "᫈", "᫉", "᫊",
                  "᫋", "ᫌ", "ᫍ", "ᫎ", "᫏", "᫐", "᫑", "᫒", "᫓", "᫔", "᫕", "᫖",
                  "᫗", "᫘", "᫙", "᫚", "᫛", "᫜", "᫝", "᫠", "᫡", "᫢", "᫣", "᫤",
                  "᫥", "᫦", "᫧", "᫨", "᫩", "᫪", "᫫", "ᮀ", "ᮁ", "ᮢ", "ᮣ", "ᮤ",
                  "ᮥ", "ᮨ", "ᮩ", "᮫", "ᮬ", "ᮭ", "᯦", "ᯨ", "ᯩ", "ᯭ", "ᯯ", "ᯰ",
                  "ᯱ", "᳐", "᳑", "᳒", "᳔", "᳕", "᳖", "᳗", "᳘", "᳙", "᳚", "᳛",
                  "᳜", "᳝", "᳞", "᳟", "᳠", "᳢", "᳣", "᳤", "᳥", "᳦", "᳧", "᳨",
                  "᳭", "᳴", "᳸", "᳹", "ᶛ", "ᶜ", "ᶝ", "ᶞ", "ᶟ", "ᶠ", "ᶡ", "ᶢ",
                  "ᶣ", "ᶤ", "ᶥ", "ᶦ", "ᶧ", "ᶨ", "ᶩ", "ᶪ", "ᶫ", "ᶬ", "ᶭ", "ᶮ",
                  "ᶯ", "ᶰ", "ᶱ", "ᶲ", "ᶳ", "ᶴ", "ᶵ", "ᶶ", "ᶷ", "ᶸ", "ᶹ", "ᶺ",
                  "ᶻ", "ᶼ", "ᶽ", "ᶾ", "ᶿ", "᷀", "᷁", "᷂", "᷃", "᷄", "᷅", "᷆",
                  "᷇", "᷈", "᷉", "᷊", "᷋", "᷌", "᷍", "᷎", "᷏", "᷐", "᷑", "᷒",
                  "ᷓ", "ᷔ", "ᷕ", "ᷖ", "ᷗ", "ᷘ", "ᷙ", "ᷚ", "ᷛ", "ᷜ", "ᷝ", "ᷞ",
                  "ᷟ", "ᷠ", "ᷡ", "ᷢ", "ᷣ", "ᷤ", "ᷥ", "ᷦ", "ᷧ", "ᷨ", "ᷩ", "ᷪ",
                  "ᷫ", "ᷬ", "ᷭ", "ᷮ", "ᷯ", "ᷰ", "ᷱ", "ᷲ", "ᷳ", "ᷴ", "᷵", "᷶",
                  "᷷", "᷸", "᷹", "᷺", "᷻", "᷼", "᷽", "᷾", "᷿", "᾽", "᾿", "῀",
                  "῁", "῍", "῎", "῏", "῝", "῞", "῟", "῭", "΅", "`", "´", "῾",
                  "ₐ", "ₑ", "ₒ", "ₓ", "ₔ", "ₕ", "ₖ", "ₗ", "ₘ", "ₙ", "ₚ", "ₛ",
                  "ₜ", "⃐", "⃑", "⃒", "⃓", "⃔", "⃕", "⃖", "⃗", "⃘", "⃙", "⃚",
                  "⃛", "⃜", "⃝", "⃞", "⃟", "⃠", "⃡", "⃢", "⃣", "⃤", "⃥", "⃦",
                  "⃧", "⃨", "⃩", "⃪", "⃫", "⃬", "⃭", "⃮", "⃯", "⃰", "⳯", "⳰",
                  "⳱", "ⷠ", "ⷡ", "ⷢ", "ⷣ", "ⷤ", "ⷥ", "ⷦ", "ⷧ", "ⷨ", "ⷩ", "ⷪ",
                  "ⷫ", "ⷬ", "ⷭ", "ⷮ", "ⷯ", "ⷰ", "ⷱ", "ⷲ", "ⷳ", "ⷴ", "ⷵ", "ⷶ",
                  "ⷷ", "ⷸ", "ⷹ", "ⷺ", "ⷻ", "ⷼ", "ⷽ", "ⷾ", "ⷿ", "゙", "゚", "゛",
                  "゜", "ゝ", "ゞ", "ー", "ヽ", "ヾ", "ꓸ", "ꓹ", "ꓺ", "ꓻ", "ꓼ", "ꓽ",
                  "ꚜ", "ꚝ", "ꚞ", "ꚟ", "꛰", "꛱", "ꞈ", "꞉", "꞊", "꟱", "ꟲ", "ꟳ",
                  "ꟴ", "ꟸ", "ꟹ", "꣄", "ꣅ", "꣠", "꣡", "꣢", "꣣", "꣤", "꣥", "꣦",
                  "꣧", "꣨", "꣩", "꣪", "꣫", "꣬", "꣭", "꣮", "꣯", "꣰", "꣱", "ꣿ",
                  "ꦀ", "ꦁ", "ꦂ", "꦳", "ꦶ", "ꦷ", "ꦸ", "ꦹ", "ꦼ", "ꦽ", "ꧏ", "ꧥ",
                  "ꧦ", "ꪰ", "ꪲ", "ꪳ", "ꪴ", "ꪷ", "ꪸ", "ꪾ", "꪿", "꫁", "ꫝ", "ꫬ",
                  "ꫭ", "ꫳ", "ꫴ", "꫶", "ꯥ", "ꯨ", "꯭", "﮲", "﮳", "﮴", "﮵", "﮶",
                  "﮷", "﮸", "﮹", "﮺", "﮻", "﮼", "﮽", "﮾", "﮿", "﯀", "﯁", "﯂",
                  "﻿", "ﾞ", "ﾟ", "￣", "￹", "￺", "￻"}

IsCased(c) == c \in Cased
IsCaseIgnorable(c) == c \in CaseIgnorable

\* among s[1..i], the last character that is not case-ignorable is cased
RECURSIVE casedBefore(_, _)
casedBefore(s, i) ==
  IF i = 0 THEN FALSE
  ELSE IF IsCaseIgnorable(s[i]) THEN casedBefore(s, i - 1)
  ELSE IsCased(s[i])

\* among s[i..Len(s)], the first character that is not case-ignorable is cased
RECURSIVE casedAfter(_, _)
casedAfter(s, i) ==
  IF i > Len(s) THEN FALSE
  ELSE IF IsCaseIgnorable(s[i]) THEN casedAfter(s, i + 1)
  ELSE IsCased(s[i])

\* the condition Final_Sigma of the Unicode case mapping: a capital sigma at
\* the end of a word becomes the final small sigma
isFinalSigma(s, i) ==
  s[i] = "Σ" /\ casedBefore(s, i - 1) /\ ~casedAfter(s, i + 1)

\* String.prototype.toLowerCase
toLowerCase(s) ==
  [i \in 1..Len(s) |-> IF isFinalSigma(s, i) THEN "ς" ELSE toLowerCaseChar(s[i])]

\* String.prototype.trim: drop the whitespace at both ends
RECURSIVE trimStart(_)
trimStart(s) ==
  IF s = <<>> THEN <<>>
  ELSE IF IsWhitespace(Head(s)) THEN trimStart(Tail(s)) ELSE s

RECURSIVE trimEnd(_)
trimEnd(s) ==
  IF s = <<>> THEN <<>>
  ELSE IF IsWhitespace(s[Len(s)]) THEN trimEnd(SubSeq(s, 1, Len(s) - 1)) ELSE s

\* variant: only the leading whitespace is dropped
trimLeadingOnly(s) == trimStart(s)

trim(s) == trimEnd(trimStart(s))

\* String.prototype.includes
includes(s, q) ==
  \E i \in 0..(Len(s) - Len(q)) : SubSeq(s, i + 1, i + Len(q)) = q

\* decimal digits of a natural number (template-literal / toFixed formatting)
RECURSIVE NatToString(_)
NatToString(n) ==
  IF n < 10 THEN <<Digits[n + 1]>>
  ELSE NatToString(n \div 10) \o <<Digits[(n % 10) + 1]>>

DigitValue(c) == (CHOOSE i \in 1..Len(Digits) : Digits[i] = c) - 1

RECURSIVE StringToNat(_)
StringToNat(s) ==
  IF s = <<>> THEN 0
  ELSE 10 * StringToNat(SubSeq(s, 1, Len(s) - 1)) + DigitValue(s[Len(s)])

\* primary collation weight of a character: space, punctuation, digits, letters
CollationWeight(c) ==
  IF c = " " THEN 1
  ELSE IF c = "." THEN 2
  ELSE IF \E i \in 1..Len(Digits) : Digits[i] = c
       THEN 10 + DigitValue(c)
  ELSE IF \E i \in 1..Len(Lowers) : Lowers[i] = toLowerCaseChar(c)
       THEN 20 + (CHOOSE i \in 1..Len(Lowers) : Lowers[i] = toLowerCaseChar(c))
  ELSE 3

\* first differing position of the primary weights, 0 when none within both
FirstDiff(a, b) ==
  LET n == IF Len(a) < Len(b) THEN Len(a) ELSE Len(b)
      D == {i \in 1..n : CollationWeight(a[i]) # CollationWeight(b[i])}
  IN  IF D = {} THEN 0 ELSE CHOOSE i \in D : \A j \in D : i <= j

FirstCaseDiff(a, b) ==
  LET D == {i \in 1..Len(a) : a[i] # b[i]}
  IN  IF D = {} THEN 0 ELSE CHOOSE i \in D : \A j \in D : i <= j

\* String.prototype.localeCompare: negative, zero or positive
localeCompare(a, b) ==
  LET d == FirstDiff(a, b)
  IN  IF d # 0
      THEN (IF CollationWeight(a[d]) < CollationWeight(b[d]) THEN -1 ELSE 1)
      ELSE IF Len(a) # Len(b) THEN (IF Len(a) < Len(b) THEN -1 ELSE 1)
      ELSE LET k == FirstCaseDiff(a, b)
           IN  IF k = 0 THEN 0 ELSE IF IsLower(a[k]) THEN -1 ELSE 1

-----------------------------------------------------------------------------
(* The roster *)

Teacher(i, n, d, s) == [id |-> i, name |-> n, department |-> d, subject |-> s]

ComputerScience == <<"C","o","m","p","u","t","e","r"," ","S","c","i","e","n","c","e">>
Mathematics == <<"M","a","t","h","e","m","a","t","i","c","s">>
Physics == <<"P","h","y","s","i","c","s">>
Chemistry == <<"C","h","e","m","i","s","t","r","y">>
English == <<"E","n","g","l","i","s","h">>

SeedTeachers == <<
  Teacher(1, <<"D","r","."," ","R","a","j","e","s","h"," ","K","u","m","a","r">>,
          ComputerScience,
          <<"D","a","t","a"," ","S","t","r","u","c","t","u","r","e","s">>),
  Teacher(2, <<"P","r","o","f","."," ","P","r","i","y","a"," ","S","h","a","r","m","a">>,
          Mathematics,
          <<"L","i","n","e","a","r"," ","A","l","g","e","b","r","a">>),
  Teacher(3, <<"D","r","."," ","A","r","j","u","n"," ","M","e","n","o","n">>,
          Physics,
          <<"Q","u","a","n","t","u","m"," ","M","e","c","h","a","n","i","c","s">>),
  Teacher(4, <<"P","r","o","f","."," ","K","a","v","i","t","h","a"," ","N","a","i","r">>,
          Chemistry,
          <<"O","r","g","a","n","i","c"," ","C","h","e","m","i","s","t","r","y">>),
  Teacher(5, <<"D","r","."," ","S","u","r","e","s","h"," ","B","a","b","u">>,
          ComputerScience,
          <<"M","a","c","h","i","n","e"," ","L","e","a","r","n","i","n","g">>),
  Teacher(6, <<"P","r","o","f","."," ","M","e","e","r","a"," ","D","a","s">>,
          English,
          <<"T","e","c","h","n","i","c","a","l"," ","W","r","i","t","i","n","g">>) >>

Roster == {SeedTeachers[i] : i \in 1..Len(SeedTeachers)}
TeacherIds == {t.id : t \in Roster}

\* `null` of selectedTeacher: Teacher | null
null == Teacher(0, <<>>, <<>>, <<>>)

AllDepartments == <<"a","l","l">>

Views == {"home", "feedback", "success"}

\* the ten buttons of the rating control
Stars == 1..10

PleaseSelectTeacher == "Please select a teacher"
PleaseEnterFeedback == "Please enter your feedback"
PleaseProvideRating == "Please provide a rating"

AnonymousPrefix == <<"A","n","o","n","y","m","o","u","s"," ">>

-----------------------------------------------------------------------------
(* Derived values *)

\* feedbackData[teacherId] || []
feedbacksOf(data, teacherId) ==
  IF teacherId \in DOMAIN data THEN data[teacherId] ELSE <<>>

RECURSIVE sumRatings(_)
sumRatings(fbs) ==
  IF fbs = <<>> THEN 0 ELSE sumRatings(SubSeq(fbs, 1, Len(fbs) - 1)) + fbs[Len(fbs)].rating

\* variant: the quotient is cut after the first decimal instead of rounded
toFixed1Truncating(sum, len) ==
  LET n == (10 * sum) \div len
  IN  NatToString(n \div 10) \o <<".">> \o <<Digits[(n % 10) + 1]>>

\* the odd j below 200 for which the double nearest to j / 20 is less than
\* j / 20: the quotient sum / len = j / 20 lies halfway between two tenths and
\* has no exact double (5 does not divide j), and the division rounds it down
DoubleBelowTie ==
  {3, 7, 17, 19, 23, 29, 33, 39, 41, 43, 51, 53, 61, 63, 71, 73, 81, 87, 91, 97,
   101, 107, 111, 117, 121, 127, 131, 137, 141, 147, 151, 157, 167, 169, 177,
   179, 187, 189, 197, 199}

\* (sum / len).toFixed(1) for a quotient up to 10: the tenths nearest to the
\* double sum / len, the larger one when the double is exactly halfway,
\* written as integer part, ".", one digit.  Off a decimal tie the double is
\* on the same side of the halfway point as the exact quotient; on a decimal
\* tie j / 20 the double is exact (x.25, x.75: the larger tenth), or below or
\* above the tie as DoubleBelowTie says.
toFixed1(sum, len) ==
  LET up == (20 * sum + len) \div (2 * len)
      tie == (20 * sum) % (2 * len) = len
      n == IF tie /\ ((20 * sum) \div len) \in DoubleBelowTie THEN up - 1 ELSE up
  IN  NatToString(n \div 10) \o <<".">> \o <<Digits[(n % 10) + 1]>>

calculateAverageRating(data, teacherId) ==
  LET teacherFeedbacks == feedbacksOf(data, teacherId)
  IN  IF Len(teacherFeedbacks) = 0 THEN <<"0", ".", "0">>
      ELSE toFixed1(sumRatings(teacherFeedbacks), Len(teacherFeedbacks))

getFeedbackCount(data, teacherId) == Len(feedbacksOf(data, teacherId))

\* Number("d.d"), in tenths
NumberTenths(s) ==
  LET dot == CHOOSE i \in 1..Len(s) : s[i] = "."
  IN  10 * StringToNat(SubSeq(s, 1, dot - 1)) + StringToNat(SubSeq(s, dot + 1, Len(s)))

RECURSIVE sumLengths(_, _)
sumLengths(data, keys) ==
  IF keys = {} THEN 0
  ELSE LET k == CHOOSE x \in keys : TRUE
       IN  Len(data[k]) + sumLengths(data, keys \ {k})

\* variant: the keys of the mapping are counted, not the entries
totalCountingKeys(data) == Cardinality(DOMAIN data)

totalFeedbackCount(data) == sumLengths(data, DOMAIN data)

\* [...new Set(teachers.map(t => t.department))]: first-seen order
RECURSIVE uniqueInOrder(_)
uniqueInOrder(s) ==
  IF s = <<>> THEN <<>>
  ELSE LET init == uniqueInOrder(SubSeq(s, 1, Len(s) - 1))
           x == s[Len(s)]
       IN  IF \E i \in 1..Len(init) : init[i] = x THEN init ELSE Append(init, x)

\* computed once, on the first render, from the seeded list
departments == uniqueInOrder([i \in 1..Len(SeedTeachers) |-> SeedTeachers[i].department])

\* a.name.localeCompare(b.name) for every pair of the roster, by teacher id
\* (names never change, so the comparisons are made once)
nameOrder ==
  [i \in 1..Len(SeedTeachers) |->
     [j \in 1..Len(SeedTeachers) |-> localeCompare(SeedTeachers[i].name, SeedTeachers[j].name)]]

\* variant: the two numeric orders are ascending (a - b instead of b - a)
compareTeachersAscending(a, b, key, data) ==
  IF key = "rating"
  THEN NumberTenths(calculateAverageRating(data, a.id))
         - NumberTenths(calculateAverageRating(data, b.id))
  ELSE IF key = "feedbacks"
  THEN getFeedbackCount(data, a.id) - getFeedbackCount(data, b.id)
  ELSE nameOrder[a.id][b.id]

\* the comparator handed to Array.prototype.sort (its sign is what matters)
compareTeachers(a, b, key, data) ==
  IF key = "rating"
  THEN NumberTenths(calculateAverageRating(data, b.id))
         - NumberTenths(calculateAverageRating(data, a.id))
  ELSE IF key = "feedbacks"
  THEN getFeedbackCount(data, b.id) - getFeedbackCount(data, a.id)
  ELSE nameOrder[a.id][b.id]

\* Array.prototype.sort is stable: an element goes after every element that
\* does not compare greater than it
RECURSIVE sort(_, _, _)
sort(s, key, data) ==
  IF Len(s) <= 1 THEN s
  ELSE LET init == sort(SubSeq(s, 1, Len(s) - 1), key, data)
           x == s[Len(s)]
           k == Cardinality({i \in 1..Len(init) : compareTeachers(init[i], x, key, data) <= 0})
       IN  SubSeq(init, 1, k) \o <<x>> \o SubSeq(init, k + 1, Len(init))

\* variant: only the name is searched
matchesNameOnly(teacher, query) ==
  includes(toLowerCase(teacher.name), toLowerCase(query))

matchesSearch(teacher, query) ==
  \/ includes(toLowerCase(teacher.name), toLowerCase(query))
  \/ includes(toLowerCase(teacher.department), toLowerCase(query))
  \/ includes(toLowerCase(teacher.subject), toLowerCase(query))

\* variant: the department filter is skipped
filteredIgnoringDepartment(ts, dept, query) ==
  LET found(t) == matchesSearch(t, query)
  IN  IF trim(query) # <<>> THEN SelectSeq(ts, found) ELSE ts

\* variant: the query is trimmed before it is matched
filteredByTrimmedQuery(ts, dept, query) ==
  LET inDept(t) == t.department = dept
      found(t) == matchesSearch(t, trim(query))
      byDept == IF dept # AllDepartments THEN SelectSeq(ts, inDept) ELSE ts
  IN  IF trim(query) # <<>> THEN SelectSeq(byDept, found) ELSE byDept

\* the list before the sort: `teachers` itself or a fresh filtered copy
filtered(ts, dept, query) ==
  LET inDept(t) == t.department = dept
      found(t) == matchesSearch(t, query)
      byDept == IF dept # AllDepartments THEN SelectSeq(ts, inDept) ELSE ts
  IN  IF trim(query) # <<>> THEN SelectSeq(byDept, found) ELSE byDept

filteredAndSortedTeachers(ts, dept, query, key, data) ==
  sort(filtered(ts, dept, query), key, data)

\* `filtered.sort` sorts in place: when neither filter made a copy, the array
\* sorted is the `teachers` array held in state
teachersAfterRender(ts, dept, query, key, data) ==
  IF dept = AllDepartments /\ trim(query) = <<>> THEN sort(ts, key, data) ELSE ts

\* variant: the copy is not reversed
reverseKeepingOrder(s) == s

\* [...feedbackData[selectedTeacher.id]].reverse()
reverse(s) == [i \in 1..Len(s) |-> s[Len(s) + 1 - i]]

\* the entries listed by FeedbackView, top first; <<>> stands for the
\* "No feedback yet" placeholder
shownFeedback(data, teacher) ==
  IF teacher # null /\ teacher.id \in DOMAIN data /\ Len(data[teacher.id]) > 0
    THEN reverse(data[teacher.id])
    ELSE <<>>

\* (1000 * 60): the milliseconds of a minute
MsPerMinute == 1000 * 60

\* variant: the minutes tier includes the sixtieth minute
timeAgoInclusiveHour(timestamp, nowMs) ==
  LET diffInMinutes == (nowMs - timestamp) \div MsPerMinute
  IN  IF diffInMinutes < 1 THEN <<"J", "u", "s", "t", " ", "n", "o", "w">>
      ELSE IF diffInMinutes <= 60 THEN NatToString(diffInMinutes) \o <<"m", " ", "a", "g", "o">>
      ELSE IF diffInMinutes < 1440
        THEN NatToString(diffInMinutes \div 60) \o <<"h", " ", "a", "g", "o">>
      ELSE NatToString(diffInMinutes \div 1440) \o <<"d", " ", "a", "g", "o">>

\* timestamp and nowMs are the getTime() values, in milliseconds, of the
\* entry's date and of the new Date() read by the call; Math.floor is \div
timeAgo(timestamp, nowMs) ==
  LET diffInMinutes == (nowMs - timestamp) \div MsPerMinute
  IN  IF diffInMinutes < 1 THEN <<"J", "u", "s", "t", " ", "n", "o", "w">>
      ELSE IF diffInMinutes < 60 THEN NatToString(diffInMinutes) \o <<"m", " ", "a", "g", "o">>
      ELSE IF diffInMinutes < 1440
        THEN NatToString(diffInMinutes \div 60) \o <<"h", " ", "a", "g", "o">>
      ELSE NatToString(diffInMinutes \div 1440) \o <<"d", " ", "a", "g", "o">>

\* the age shown next to each entry listed by FeedbackView; timeAgo reads the
\* clock once for every entry: readings[i] is what new Date() reads for the
\* i-th entry listed
shownAges(data, teacher, readings) ==
  LET l == shownFeedback(data, teacher)
  IN  [i \in 1..Len(l) |-> timeAgo(l[i].timestamp, readings[i])]

\* the teacher cards shown by HomeView
shownTeachers ==
  LET l == filteredAndSortedTeachers(teachers, filterDepartment, searchQuery, sortBy, feedbackData)
  IN  {l[i] : i \in 1..Len(l)}

-----------------------------------------------------------------------------
(* Initial state: the useState initial values *)

Init ==
  /\ teachers = SeedTeachers
  /\ currentView = "home"
  /\ selectedTeacher = null
  /\ anonymousId = <<>>
  /\ feedbackData = <<>>
  /\ filterDepartment = AllDepartments
  /\ sortBy = "name"
  /\ searchQuery = <<>>
  /\ showSearch = FALSE
  /\ activeStatsCard = "null"
  /\ feedbackText = <<>>
  /\ feedbackRating = 0
  /\ rendered = FALSE
  /\ mounted = FALSE
  /\ now = 0
  /\ alertMsg = "none"
  /\ lastOp = "none"

\* every render recomputes filteredAndSortedTeachers from the new state
Render ==
  teachers' = teachersAfterRender(teachers, filterDepartment', searchQuery', sortBy', feedbackData')

-----------------------------------------------------------------------------
(* First render and mount effect *)

\* Math.random() readings, in thousandths: the least and the greatest
RandomInputs == {0, 999}

\* variant: the "+ 1" is missing
randomIdFromZero(r) == (r * 1000) \div 1000

\* Math.floor(Math.random() * 1000) + 1, Math.random() given in thousandths
randomId(r) == ((r * 1000) \div 1000) + 1

\* the first render: filteredAndSortedTeachers sorts `teachers`, the home
\* view is committed with its handlers attached; the mount effect is pending
FirstRender ==
  /\ ~rendered
  /\ rendered' = TRUE
  /\ lastOp' = "none"
  /\ UNCHANGED <<currentView, selectedTeacher, anonymousId, feedbackData, filterVars,
                 formVars, mounted, now, alertMsg>>
  /\ Render

\* the mount effect, run in a later task than the first render, and the
\* render its setAnonymousId causes
Mount(r) ==
  /\ rendered
  /\ ~mounted
  /\ mounted' = TRUE
  /\ anonymousId' = AnonymousPrefix \o NatToString(randomId(r))
  /\ lastOp' = "none"
  /\ UNCHANGED <<currentView, selectedTeacher, feedbackData, filterVars, formVars,
                 rendered, now, alertMsg>>
  /\ Render

\* an event that comes before the mount effect has run: React runs the
\* pending effect before it renders the update of the event, so the state
\* after the event has the pseudonym set
flushPassiveEffects ==
  /\ mounted' = TRUE
  /\ IF mounted THEN UNCHANGED anonymousId
     ELSE \E r \in RandomInputs :
            anonymousId' = AnonymousPrefix \o NatToString(randomId(r))

-----------------------------------------------------------------------------
(* submitFeedback *)

\* idClock is what Date.now() reads for the id, timeClock what new Date()
\* reads, later in the same call, for the timestamp
newFeedback(idClock, timeClock) ==
  [id |-> idClock, anonymousId |-> anonymousId, comment |-> trim(feedbackText),
   rating |-> feedbackRating, timestamp |-> timeClock]

\* variant: the new entry is put in front of the list
prependFeedback(prev, teacherId, fb) ==
  [k \in (DOMAIN prev) \cup {teacherId} |->
     IF k = teacherId THEN <<fb>> \o feedbacksOf(prev, teacherId) ELSE prev[k]]

\* variant: the earlier entries of the list are not copied
replaceFeedback(prev, teacherId, fb) ==
  [k \in (DOMAIN prev) \cup {teacherId} |-> IF k = teacherId THEN <<fb>> ELSE prev[k]]

\* { ...prev, [id]: [...(prev[id] || []), fb] }
appendFeedback(prev, teacherId, fb) ==
  [k \in (DOMAIN prev) \cup {teacherId} |->
     IF k = teacherId THEN Append(feedbacksOf(prev, teacherId), fb) ELSE prev[k]]

\* variant: a rejection also resets the form
rejectedClearingForm(msg) ==
  /\ alertMsg' = msg
  /\ feedbackText' = <<>>
  /\ feedbackRating' = 0
  /\ UNCHANGED <<currentView, selectedTeacher, feedbackData, now>>

\* alert(msg); return: the clock is not read
rejected(msg) ==
  /\ alertMsg' = msg
  /\ UNCHANGED <<currentView, selectedTeacher, feedbackData, formVars, now>>

\* variant: the rating is checked before the comment
submitFeedbackRatingFirst(idClock, timeClock) ==
  /\ lastOp' = "submitFeedback"
  /\ IF selectedTeacher = null THEN rejected(PleaseSelectTeacher)
     ELSE IF feedbackRating = 0 THEN rejected(PleaseProvideRating)
     ELSE IF trim(feedbackText) = <<>> THEN rejected(PleaseEnterFeedback)
     ELSE /\ feedbackData' = appendFeedback(feedbackData, selectedTeacher.id, newFeedback(idClock, timeClock))
          /\ now' = timeClock
          /\ feedbackText' = <<>>
          /\ feedbackRating' = 0
          /\ currentView' = "success"
          /\ alertMsg' = "none"
          /\ UNCHANGED selectedTeacher
  /\ UNCHANGED <<anonymousId, filterVars, rendered, mounted>>
  /\ Render

submitFeedback(idClock, timeClock) ==
  /\ lastOp' = "submitFeedback"
  /\ IF selectedTeacher = null THEN rejected(PleaseSelectTeacher)
     ELSE IF trim(feedbackText) = <<>> THEN rejected(PleaseEnterFeedback)
     ELSE IF feedbackRating = 0 THEN rejected(PleaseProvideRating)
     ELSE /\ feedbackData' = appendFeedback(feedbackData, selectedTeacher.id, newFeedback(idClock, timeClock))
          /\ now' = timeClock
          /\ feedbackText' = <<>>
          /\ feedbackRating' = 0
          /\ currentView' = "success"
          /\ alertMsg' = "none"
          /\ UNCHANGED selectedTeacher
  /\ UNCHANGED <<anonymousId, filterVars, rendered, mounted>>
  /\ Render

-----------------------------------------------------------------------------
(* What the user can do in the feedback and success views *)

\* variant: the button looks at the text only
submitDisabledByTextOnly == trim(feedbackText) = <<>>

\* disabled={!feedbackText.trim() || feedbackRating === 0}
submitDisabled == trim(feedbackText) = <<>> \/ feedbackRating = 0

SubmitClick(idClock, timeClock) ==
  /\ rendered
  /\ currentView = "feedback"
  /\ ~submitDisabled
  /\ totalFeedbackCount(feedbackData) < MaxFeedback
  /\ submitFeedback(idClock, timeClock)

FeedbackTextChange(text) ==
  /\ rendered
  /\ currentView = "feedback"
  /\ feedbackText' = text
  /\ lastOp' = "none"
  /\ alertMsg' = "none"
  /\ UNCHANGED <<currentView, selectedTeacher, anonymousId, feedbackData, filterVars,
                 feedbackRating, rendered, mounted, now>>
  /\ Render

handleStarClick(star) ==
  /\ feedbackRating' = star
  /\ lastOp' = "none"
  /\ alertMsg' = "none"
  /\ UNCHANGED <<currentView, selectedTeacher, anonymousId, feedbackData, filterVars,
                 feedbackText, rendered, mounted, now>>
  /\ Render

StarClick(star) ==
  /\ rendered
  /\ currentView = "feedback"
  /\ star \in Stars
  /\ handleStarClick(star)

\* variant: going home forgets the selection
setCurrentViewHomeClearing ==
  /\ currentView' = "home"
  /\ selectedTeacher' = null
  /\ lastOp' = "none"
  /\ alertMsg' = "none"
  /\ UNCHANGED <<anonymousId, feedbackData, filterVars, formVars, rendered, mounted, now>>
  /\ Render

setCurrentViewHome ==
  /\ currentView' = "home"
  /\ lastOp' = "none"
  /\ alertMsg' = "none"
  /\ UNCHANGED <<selectedTeacher, anonymousId, feedbackData, filterVars, formVars, rendered, mounted, now>>
  /\ Render

Back ==
  /\ rendered
  /\ currentView = "feedback"
  /\ setCurrentViewHome

\* variant: "Submit More Reviews" reopens the form
SubmitMoreToForm ==
  /\ rendered
  /\ currentView = "success"
  /\ currentView' = "feedback"
  /\ lastOp' = "none"
  /\ alertMsg' = "none"
  /\ UNCHANGED <<selectedTeacher, anonymousId, feedbackData, filterVars, formVars, rendered, mounted, now>>
  /\ Render

SubmitMore ==
  /\ rendered
  /\ currentView = "success"
  /\ setCurrentViewHome

-----------------------------------------------------------------------------
(* What the user can do in the home view *)

\* variant: the card sets the view but not the selection
TeacherCardClickNoSelect(teacher) ==
  /\ rendered
  /\ currentView \notin {"feedback", "success"}
  /\ teacher \in shownTeachers
  /\ currentView' = "feedback"
  /\ lastOp' = "none"
  /\ alertMsg' = "none"
  /\ flushPassiveEffects
  /\ UNCHANGED <<selectedTeacher, feedbackData, filterVars, formVars, rendered, now>>
  /\ Render

TeacherCardClick(teacher) ==
  /\ rendered
  /\ currentView \notin {"feedback", "success"}
  /\ teacher \in shownTeachers
  /\ selectedTeacher' = teacher
  /\ currentView' = "feedback"
  /\ lastOp' = "none"
  /\ alertMsg' = "none"
  /\ flushPassiveEffects
  /\ UNCHANGED <<feedbackData, filterVars, formVars, rendered, now>>
  /\ Render

homeShown == rendered /\ currentView \notin {"feedback", "success"}

homeFrame ==
  /\ alertMsg' = "none"
  /\ flushPassiveEffects
  /\ UNCHANGED <<currentView, selectedTeacher, feedbackData, formVars, rendered, now>>

\* variant: the Faculty card keeps the text of the search box
handleStatsCardClickKeepingQuery(cardType) ==
  /\ homeShown
  /\ activeStatsCard' = cardType
  /\ IF cardType = "faculty"
     THEN /\ showSearch' = TRUE
          /\ filterDepartment' = AllDepartments
          /\ UNCHANGED <<searchQuery, sortBy>>
     ELSE IF cardType = "departments"
     THEN /\ showSearch' = FALSE
          /\ UNCHANGED <<filterDepartment, searchQuery, sortBy>>
     ELSE IF cardType = "reviews"
     THEN /\ showSearch' = FALSE
          /\ sortBy' = "feedbacks"
          /\ UNCHANGED <<filterDepartment, searchQuery>>
     ELSE UNCHANGED <<showSearch, filterDepartment, searchQuery, sortBy>>
  /\ lastOp' = "handleStatsCardClick"
  /\ homeFrame
  /\ Render

\* variant: the Departments card resets the department selector too
handleStatsCardClickResettingDepartment(cardType) ==
  /\ homeShown
  /\ activeStatsCard' = cardType
  /\ IF cardType = "faculty"
     THEN /\ showSearch' = TRUE
          /\ filterDepartment' = AllDepartments
          /\ searchQuery' = <<>>
          /\ UNCHANGED sortBy
     ELSE IF cardType = "departments"
     THEN /\ showSearch' = FALSE
          /\ filterDepartment' = AllDepartments
          /\ UNCHANGED <<searchQuery, sortBy>>
     ELSE IF cardType = "reviews"
     THEN /\ showSearch' = FALSE
          /\ sortBy' = "feedbacks"
          /\ UNCHANGED <<filterDepartment, searchQuery>>
     ELSE UNCHANGED <<showSearch, filterDepartment, searchQuery, sortBy>>
  /\ lastOp' = "handleStatsCardClick"
  /\ homeFrame
  /\ Render

\* variant: the cards that close the search box empty it too
handleStatsCardClickEmptyingClosedBox(cardType) ==
  /\ homeShown
  /\ activeStatsCard' = cardType
  /\ IF cardType = "faculty"
     THEN /\ showSearch' = TRUE
          /\ filterDepartment' = AllDepartments
          /\ searchQuery' = <<>>
          /\ UNCHANGED sortBy
     ELSE IF cardType = "departments"
     THEN /\ showSearch' = FALSE
          /\ searchQuery' = <<>>
          /\ UNCHANGED <<filterDepartment, sortBy>>
     ELSE IF cardType = "reviews"
     THEN /\ showSearch' = FALSE
          /\ searchQuery' = <<>>
          /\ sortBy' = "feedbacks"
          /\ UNCHANGED filterDepartment
     ELSE UNCHANGED <<showSearch, filterDepartment, searchQuery, sortBy>>
  /\ lastOp' = "handleStatsCardClick"
  /\ homeFrame
  /\ Render

handleStatsCardClick(cardType) ==
  /\ homeShown
  /\ activeStatsCard' = cardType
  /\ IF cardType = "faculty"
     THEN /\ showSearch' = TRUE
          /\ filterDepartment' = AllDepartments
          /\ searchQuery' = <<>>
          /\ UNCHANGED sortBy
     ELSE IF cardType = "departments"
     THEN /\ showSearch' = FALSE
          /\ UNCHANGED <<filterDepartment, searchQuery, sortBy>>
     ELSE IF cardType = "reviews"
     THEN /\ showSearch' = FALSE
          /\ sortBy' = "feedbacks"
          /\ UNCHANGED <<filterDepartment, searchQuery>>
     ELSE UNCHANGED <<showSearch, filterDepartment, searchQuery, sortBy>>
  /\ lastOp' = "handleStatsCardClick"
  /\ homeFrame
  /\ Render

\* the X inside the search box, shown while the box is open and not empty
clearSearch ==
  /\ homeShown
  /\ showSearch /\ searchQuery # <<>>
  /\ searchQuery' = <<>>
  /\ showSearch' = FALSE
  /\ activeStatsCard' = "null"
  /\ lastOp' = "clearSearch"
  /\ UNCHANGED <<filterDepartment, sortBy>>
  /\ homeFrame
  /\ Render

\* searchQuery || filterDepartment !== 'all' || activeStatsCard
filtersShown ==
  searchQuery # <<>> \/ filterDepartment # AllDepartments \/ activeStatsCard # "null"

\* variant: Clear All leaves the sort selector alone
clearAllFiltersKeepingSort ==
  /\ homeShown
  /\ filtersShown
  /\ searchQuery' = <<>>
  /\ filterDepartment' = AllDepartments
  /\ activeStatsCard' = "null"
  /\ showSearch' = FALSE
  /\ lastOp' = "clearAllFilters"
  /\ UNCHANGED sortBy
  /\ homeFrame
  /\ Render

clearAllFilters ==
  /\ homeShown
  /\ filtersShown
  /\ searchQuery' = <<>>
  /\ filterDepartment' = AllDepartments
  /\ sortBy' = "name"
  /\ activeStatsCard' = "null"
  /\ showSearch' = FALSE
  /\ lastOp' = "clearAllFilters"
  /\ homeFrame
  /\ Render

handleSearchChange(value) ==
  /\ homeShown
  /\ showSearch
  /\ searchQuery' = value
  /\ lastOp' = "handleSearchChange"
  /\ UNCHANGED <<filterDepartment, sortBy, showSearch, activeStatsCard>>
  /\ homeFrame
  /\ Render

handleDepartmentChange(value) ==
  /\ homeShown
  /\ value = AllDepartments \/ \E i \in 1..Len(departments) : departments[i] = value
  /\ filterDepartment' = value
  /\ lastOp' = "handleDepartmentChange"
  /\ UNCHANGED <<sortBy, searchQuery, showSearch, activeStatsCard>>
  /\ homeFrame
  /\ Render

handleSortChange(value) ==
  /\ homeShown
  /\ value \in {"name", "rating", "feedbacks"}
  /\ sortBy' = value
  /\ lastOp' = "handleSortChange"
  /\ UNCHANGED <<filterDepartment, searchQuery, showSearch, activeStatsCard>>
  /\ homeFrame
  /\ Render

removeSearchFilter ==
  /\ homeShown
  /\ searchQuery # <<>>
  /\ searchQuery' = <<>>
  /\ lastOp' = "removeSearchFilter"
  /\ UNCHANGED <<filterDepartment, sortBy, showSearch, activeStatsCard>>
  /\ homeFrame
  /\ Render

removeDepartmentFilter ==
  /\ homeShown
  /\ filterDepartment # AllDepartments
  /\ filterDepartment' = AllDepartments
  /\ lastOp' = "removeDepartmentFilter"
  /\ UNCHANGED <<sortBy, searchQuery, showSearch, activeStatsCard>>
  /\ homeFrame
  /\ Render

removeActiveStatsFilter ==
  /\ homeShown
  /\ activeStatsCard # "null"
  /\ activeStatsCard' = "null"
  /\ lastOp' = "removeActiveStatsFilter"
  /\ UNCHANGED <<filterDepartment, sortBy, searchQuery, showSearch>>
  /\ homeFrame
  /\ Render

-----------------------------------------------------------------------------
(* Inputs of the exploration *)

\* what the user types or pastes into the comment field, a single-line text
\* input: it holds tabs and spaces but no line break
TextInputs == {<<>>, <<" ", "\t">>, <<"\t", "b", " ">>}

\* the stars the user clicks
StarInputs == {1, 10}

\* the teacher cards the user clicks
CardInputs == {1, 2}

\* what the user types into the search box
SearchInputs ==
  {<<"k","u","m","a","r">>, <<"K","u","M","A","R">>, <<"\t", " ">>, <<"c","h","e","m">>,
   <<"k","u","m","a","r"," ">>, <<" ","k","u","m","a","r">>}

\* the departments the user picks in the department selector
DepartmentInputs == {AllDepartments, ComputerScience, Mathematics, Physics, Chemistry, English}

SortInputs == {"name", "rating", "feedbacks"}

CardTypes == {"faculty", "departments", "reviews"}

-----------------------------------------------------------------------------
(* The feedback workflow of a session: mount, then card click, typing,     *)
(* rating, submitting and the two ways home.  The search, filter and sort  *)
(* controls of the home view stay as the first render left them.           *)

Next ==
  \/ FirstRender
  \/ \E r \in RandomInputs : Mount(r)
  \/ \E t \in Roster : t.id \in CardInputs /\ TeacherCardClick(t)
  \/ \E text \in TextInputs : FeedbackTextChange(text)
  \/ \E star \in StarInputs : StarClick(star)
  \/ \E idClock \in now..MaxClock : \E timeClock \in idClock..MaxClock :
       SubmitClick(idClock, timeClock)
  \/ Back
  \/ SubmitMore

Spec == Init /\ [][Next]_vars

-----------------------------------------------------------------------------
(* submitFeedback called on any pending form: the selection, the text and  *)
(* the rating are drawn, the roster is as the first render left it         *)

InitSubmit ==
  /\ teachers = teachersAfterRender(SeedTeachers, AllDepartments, <<>>, "name", <<>>)
  /\ currentView \in Views
  /\ selectedTeacher \in {null} \cup {t \in Roster : t.id \in CardInputs}
  /\ \E r \in RandomInputs : anonymousId = AnonymousPrefix \o NatToString(randomId(r))
  /\ feedbackData = <<>>
  /\ filterDepartment = AllDepartments
  /\ sortBy = "name"
  /\ searchQuery = <<>>
  /\ showSearch = FALSE
  /\ activeStatsCard = "null"
  /\ feedbackText \in TextInputs
  /\ feedbackRating \in {0} \cup Stars
  /\ rendered = TRUE
  /\ mounted = TRUE
  /\ now = 0
  /\ alertMsg = "none"
  /\ lastOp = "none"

SubmitCall(idClock, timeClock) ==
  /\ totalFeedbackCount(feedbackData) < MaxFeedback
  /\ submitFeedback(idClock, timeClock)

NextSubmit ==
  \/ \E idClock \in now..MaxClock : \E timeClock \in idClock..MaxClock :
       SubmitCall(idClock, timeClock)
  \/ \E text \in TextInputs : FeedbackTextChange(text)
  \/ \E star \in StarInputs : StarClick(star)

SpecSubmit == InitSubmit /\ [][NextSubmit]_vars

-----------------------------------------------------------------------------
(* The aggregates over any list of ratings: teacher 1 holds a drawn list   *)
(* of at most MaxRatings entries, submitted one millisecond apart          *)

\* length of the drawn list of ratings
MaxRatings == 3

RatingLists == UNION {[1..n -> Stars] : n \in 0..MaxRatings}

\* twenty ratings with the mean 1.15, halfway between two tenths: seventeen
\* times 1 and three times 2
TieRatingList == [i \in 1..20 |-> IF i <= 17 THEN 1 ELSE 2]

feedbackOfRatings(ratings) ==
  [i \in 1..Len(ratings) |->
     [id |-> i, anonymousId |-> AnonymousPrefix \o <<"1">>, comment |-> <<"a">>,
      rating |-> ratings[i], timestamp |-> i]]

InitRatings ==
  /\ teachers = teachersAfterRender(SeedTeachers, AllDepartments, <<>>, "name", <<>>)
  /\ currentView = "home"
  /\ anonymousId = AnonymousPrefix \o <<"1">>
  /\ \E ratings \in RatingLists \cup {TieRatingList} :
       /\ feedbackData = IF ratings = <<>> THEN <<>>
                         ELSE [k \in {1} |-> feedbackOfRatings(ratings)]
       /\ selectedTeacher = IF ratings = <<>> THEN null ELSE SeedTeachers[1]
       /\ now = Len(ratings)
  /\ filterDepartment = AllDepartments
  /\ sortBy = "name"
  /\ searchQuery = <<>>
  /\ showSearch = FALSE
  /\ activeStatsCard = "null"
  /\ feedbackText = <<>>
  /\ feedbackRating = 0
  /\ rendered = TRUE
  /\ mounted = TRUE
  /\ alertMsg = "none"
  /\ lastOp = "none"

NextRatings ==
  \/ \E t \in Roster : t.id \in CardInputs /\ TeacherCardClick(t)
  \/ Back

SpecRatings == InitRatings /\ [][NextRatings]_vars

-----------------------------------------------------------------------------
(* The home view after some submissions: the lists of teachers 1 and 2 are *)
(* drawn, nothing but submitting was done before (the roster is in name    *)
(* order, the controls are untouched), then the user works the controls.   *)

\* the ratings a teacher's list may hold at the start
SampleRatingLists == {<<>>, <<9>>, <<2>>, <<2, 9, 9>>}

\* the entries of one teacher, submitted one millisecond apart
feedbackOfTeacher(teacherId, ratings) ==
  [i \in 1..Len(ratings) |->
     [id |-> 10 * teacherId + i, anonymousId |-> AnonymousPrefix \o <<"1">>,
      comment |-> <<"a">>, rating |-> ratings[i], timestamp |-> 10 * teacherId + i]]

feedbackOfLists(r1, r2) ==
  [k \in {t \in {1, 2} : (IF t = 1 THEN r1 ELSE r2) # <<>>} |->
     feedbackOfTeacher(k, IF k = 1 THEN r1 ELSE r2)]

InitHome ==
  /\ teachers = teachersAfterRender(SeedTeachers, AllDepartments, <<>>, "name", <<>>)
  /\ currentView = "home"
  /\ anonymousId = AnonymousPrefix \o <<"1">>
  /\ \E r1 \in SampleRatingLists, r2 \in SampleRatingLists :
       /\ feedbackData = feedbackOfLists(r1, r2)
       /\ selectedTeacher = IF r2 # <<>> THEN SeedTeachers[2]
                            ELSE IF r1 # <<>> THEN SeedTeachers[1] ELSE null
       /\ now = IF r2 # <<>> THEN 20 + Len(r2) ELSE 10 + Len(r1)
  /\ filterDepartment = AllDepartments
  /\ sortBy = "name"
  /\ searchQuery = <<>>
  /\ showSearch = FALSE
  /\ activeStatsCard = "null"
  /\ feedbackText = <<>>
  /\ feedbackRating = 0
  /\ rendered = TRUE
  /\ mounted = TRUE
  /\ alertMsg = "none"
  /\ lastOp = "none"

NextHome ==
  \/ \E c \in CardTypes : handleStatsCardClick(c)
  \/ clearSearch
  \/ clearAllFilters
  \/ \E q \in SearchInputs : handleSearchChange(q)
  \/ \E d \in DepartmentInputs : handleDepartmentChange(d)
  \/ \E k \in SortInputs : handleSortChange(k)
  \/ removeSearchFilter
  \/ removeDepartmentFilter
  \/ removeActiveStatsFilter

SpecHome == InitHome /\ [][NextHome]_vars

-----------------------------------------------------------------------------
(* Navigation from a home view whose controls have been used: the user   *)
(* opens a card, fills the form, submits and comes back.                   *)

\* settings of the home controls that the home handlers lead to: untouched;
\* the Reviews card clicked; the Faculty card clicked, then Computer Science
\* selected, sorted by rating and 'kumar' typed
ControlSettings ==
  { <<AllDepartments, "name", <<>>, FALSE, "null">>,
    <<AllDepartments, "feedbacks", <<>>, FALSE, "reviews">>,
    <<ComputerScience, "rating", <<"k", "u", "m", "a", "r">>, TRUE, "faculty">> }

InitNav ==
  /\ teachers = teachersAfterRender(SeedTeachers, AllDepartments, <<>>, "name", <<>>)
  /\ currentView = "home"
  /\ selectedTeacher = null
  /\ anonymousId = AnonymousPrefix \o <<"1">>
  /\ feedbackData = <<>>
  /\ \E s \in ControlSettings :
       /\ filterDepartment = s[1]
       /\ sortBy = s[2]
       /\ searchQuery = s[3]
       /\ showSearch = s[4]
       /\ activeStatsCard = s[5]
  /\ feedbackText = <<>>
  /\ feedbackRating = 0
  /\ rendered = TRUE
  /\ mounted = TRUE
  /\ now = 0
  /\ alertMsg = "none"
  /\ lastOp = "none"

NextNav ==
  \/ \E t \in Roster : t.id \in CardInputs /\ TeacherCardClick(t)
  \/ \E text \in TextInputs : FeedbackTextChange(text)
  \/ \E star \in StarInputs : StarClick(star)
  \/ \E idClock \in now..MaxClock : \E timeClock \in idClock..MaxClock :
       SubmitClick(idClock, timeClock)
  \/ Back
  \/ SubmitMore

SpecNav == InitNav /\ [][NextNav]_vars

-----------------------------------------------------------------------------
(* The age of a stored entry as the clock moves: one entry of teacher 1,   *)
(* looked at from the feedback view on later and later renders.            *)

\* the longest age explored, in minutes: two days and a little more
MaxElapsedMinutes == 2890

\* when the entry was submitted, in milliseconds
SampleTimestamp == 100000

\* the clock at the start, relative to the submission: more than a minute
\* before it (the clock was set back), the same instant, 30 s and 59 s later
InitialElapsed == {0 - 60001, 0, 30000, 59000}

InitTime ==
  /\ teachers = teachersAfterRender(SeedTeachers, AllDepartments, <<>>, "name", <<>>)
  /\ currentView = "home"
  /\ selectedTeacher = SeedTeachers[1]
  /\ anonymousId = AnonymousPrefix \o <<"1">>
  /\ feedbackData = [k \in {1} |->
                       <<[id |-> SampleTimestamp, anonymousId |-> AnonymousPrefix \o <<"1">>,
                          comment |-> <<"a">>, rating |-> 9, timestamp |-> SampleTimestamp]>>]
  /\ filterDepartment = AllDepartments
  /\ sortBy = "name"
  /\ searchQuery = <<>>
  /\ showSearch = FALSE
  /\ activeStatsCard = "null"
  /\ feedbackText = <<>>
  /\ feedbackRating = 0
  /\ rendered = TRUE
  /\ mounted = TRUE
  /\ \E e \in InitialElapsed : now = SampleTimestamp + e
  /\ alertMsg = "none"
  /\ lastOp = "none"

\* a render whose new Date() reads one minute more than the last reading
RenderLater ==
  /\ rendered
  /\ now + MsPerMinute - SampleTimestamp <= MaxElapsedMinutes * MsPerMinute
  /\ now' = now + MsPerMinute
  /\ lastOp' = "none"
  /\ alertMsg' = "none"
  /\ UNCHANGED <<currentView, selectedTeacher, anonymousId, feedbackData, filterVars,
                 formVars, rendered, mounted>>
  /\ Render

NextTime ==
  \/ RenderLater
  \/ \E t \in Roster : t.id \in CardInputs /\ TeacherCardClick(t)
  \/ Back

SpecTime == InitTime /\ [][NextTime]_vars

-----------------------------------------------------------------------------
(* The home controls with a form left pending: the user has submitted one *)
(* review for teacher 1, opened the form again, possibly typed and rated,  *)
(* and gone back home without submitting.                                  *)

\* what Back left in the form: nothing, or a text and a rating
PendingForms == { <<<<>>, 0>>, <<<<"\t", "b", " ">>, 10>> }

InitControls ==
  /\ teachers = teachersAfterRender(SeedTeachers, AllDepartments, <<>>, "name", <<>>)
  /\ currentView = "home"
  /\ selectedTeacher = SeedTeachers[1]
  /\ anonymousId = AnonymousPrefix \o <<"1">>
  /\ feedbackData = feedbackOfLists(<<9>>, <<>>)
  /\ filterDepartment = AllDepartments
  /\ sortBy = "name"
  /\ searchQuery = <<>>
  /\ showSearch = FALSE
  /\ activeStatsCard = "null"
  /\ \E f \in PendingForms : feedbackText = f[1] /\ feedbackRating = f[2]
  /\ rendered = TRUE
  /\ mounted = TRUE
  /\ now = 11
  /\ alertMsg = "none"
  /\ lastOp = "none"

SpecControls == InitControls /\ [][NextHome]_vars

-----------------------------------------------------------------------------
(* Vocabulary of the properties *)

\* empty or whitespace-only
Blank(s) ==
  \A i \in 1..Len(s) :
    s[i] \in {" ", "\t", "\n", "\r", "\f", "", " ", " ", "﻿"}

\* non-empty, with no whitespace at either end
Trimmed(s) == s # <<>> /\ ~Blank(<<s[1]>>) /\ ~Blank(<<s[Len(s)]>>)

\* c is s without the whitespace at its two ends
IsTrimOf(c, s) ==
  /\ Trimmed(c)
  /\ \E i \in 0..(Len(s) - Len(c)) :
       /\ SubSeq(s, i + 1, i + Len(c)) = c
       /\ Blank(SubSeq(s, 1, i))
       /\ Blank(SubSeq(s, i + Len(c) + 1, Len(s)))

IsPrefix(s, t) == Len(s) <= Len(t) /\ SubSeq(t, 1, Len(s)) = s

AllFeedback == UNION {{feedbackData[k][i] : i \in 1..Len(feedbackData[k])} : k \in DOMAIN feedbackData}

\* the pending form passes the three checks of submitFeedback
FormValid == selectedTeacher # null /\ ~Blank(feedbackText) /\ feedbackRating # 0

-----------------------------------------------------------------------------
(* C1..C10 *)

\* C1: a successful submitFeedback appends exactly one Feedback to the end of
\* the selected teacher's list, with the session's anonymousId, the trimmed
\* text and the pending rating; the other lists are unchanged, the form is
\* cleared and the view becomes success.
SubmitAppendsOne ==
  [][(lastOp' = "submitFeedback" /\ FormValid) =>
       LET old == feedbacksOf(feedbackData, selectedTeacher.id)
           new == feedbacksOf(feedbackData', selectedTeacher.id)
       IN  /\ Len(new) = Len(old) + 1
           /\ SubSeq(new, 1, Len(old)) = old
           /\ new[Len(new)].anonymousId = anonymousId
           /\ IsTrimOf(new[Len(new)].comment, feedbackText)
           /\ new[Len(new)].rating = feedbackRating
           /\ \A t \in TeacherIds \ {selectedTeacher.id} :
                feedbacksOf(feedbackData', t) = feedbacksOf(feedbackData, t)
           /\ DOMAIN feedbackData' = DOMAIN feedbackData \cup {selectedTeacher.id}
           /\ feedbackText' = <<>>
           /\ feedbackRating' = 0
           /\ currentView' = "success"]_vars

\* a submission has just been appended behind an earlier entry of the same teacher
SubmitAppendsOneWitness ==
  /\ lastOp = "submitFeedback"
  /\ alertMsg = "none"
  /\ currentView = "success"
  /\ selectedTeacher # null
  /\ Len(feedbacksOf(feedbackData, selectedTeacher.id)) = 2
  /\ feedbacksOf(feedbackData, selectedTeacher.id)[1].rating = 1
  /\ feedbacksOf(feedbackData, selectedTeacher.id)[2].rating = 10

\* C2: a rejected submitFeedback (no teacher, blank text or rating 0) leaves
\* feedbackData, currentView, selectedTeacher, feedbackText and feedbackRating
\* unchanged.
RejectedSubmitChangesNothing ==
  [][(lastOp' = "submitFeedback" /\ ~FormValid) =>
       UNCHANGED <<feedbackData, currentView, selectedTeacher, feedbackText, feedbackRating>>]_vars

\* submitFeedback has been called in the feedback view with a teacher and a
\* rating but a whitespace-only text
RejectedSubmitWitness ==
  /\ lastOp = "submitFeedback"
  /\ currentView = "feedback"
  /\ selectedTeacher # null
  /\ feedbackText = <<" ", "\t">>
  /\ feedbackRating = 10

\* the alert the claimed order of checks gives for the pending form
ExpectedAlert ==
  IF selectedTeacher = null THEN "Please select a teacher"
  ELSE IF Blank(feedbackText) THEN "Please enter your feedback"
  ELSE IF feedbackRating = 0 THEN "Please provide a rating"
  ELSE "none"

\* C3: submitFeedback reports the message of the first failing check in the
\* order teacher, comment, rating (and none when all three pass).
FirstFailingCheckReported ==
  [][lastOp' = "submitFeedback" => alertMsg' = ExpectedAlert]_vars

\* all three checks fail and the teacher message is the one shown
FirstFailingCheckWitness ==
  /\ lastOp = "submitFeedback"
  /\ selectedTeacher = null
  /\ Blank(feedbackText)
  /\ feedbackRating = 0
  /\ alertMsg = "Please select a teacher"

\* C4: every stored Feedback has a rating in 1..10 and a non-empty comment
\* with no whitespace at its ends; the pending rating is in 0..10.
StoredFeedbackWellFormed ==
  /\ \A fb \in AllFeedback : fb.rating \in 1..10 /\ Trimmed(fb.comment)
  /\ feedbackRating \in 0..10

\* the text " b " was submitted with ten stars and one star is pending again
StoredFeedbackWitness ==
  /\ \E fb \in AllFeedback : fb.rating = 10 /\ fb.comment = <<"b">>
  /\ \E fb \in AllFeedback : fb.rating = 1
  /\ feedbackRating = 1

\* C5: in every step each teacher's list keeps its old entries as a prefix,
\* so no count decreases.
FeedbackAppendOnly ==
  [][/\ \A t \in TeacherIds :
          /\ IsPrefix(feedbacksOf(feedbackData, t), feedbacksOf(feedbackData', t))
          /\ getFeedbackCount(feedbackData', t) >= getFeedbackCount(feedbackData, t)
     /\ DOMAIN feedbackData \subseteq DOMAIN feedbackData'
     /\ totalFeedbackCount(feedbackData') >= totalFeedbackCount(feedbackData)]_vars

\* two teachers hold an entry each and the user is back in the form
FeedbackAppendOnlyWitness ==
  /\ getFeedbackCount(feedbackData, 1) = 1
  /\ getFeedbackCount(feedbackData, 2) = 1
  /\ currentView = "feedback"

ViewStep ==
  currentView' # currentView =>
    \/ currentView = "home" /\ currentView' = "feedback"
    \/ /\ currentView = "feedback" /\ currentView' = "success"
       /\ lastOp' = "submitFeedback"
       /\ totalFeedbackCount(feedbackData') = totalFeedbackCount(feedbackData) + 1
    \/ currentView = "feedback" /\ currentView' = "home"
    \/ currentView = "success" /\ currentView' = "home"

\* C6: the view starts as home, is always home, feedback or success, and
\* changes only home->feedback, feedback->success (in a step that appends a
\* Feedback), feedback->home and success->home.
ViewTransitions ==
  /\ currentView = "home"
  /\ [](currentView \in {"home", "feedback", "success"})
  /\ [][ViewStep]_vars

\* home again after a submission: home, feedback, success, home
ViewTransitionsWitness ==
  /\ currentView = "home"
  /\ totalFeedbackCount(feedbackData) = 1
  /\ feedbackText = <<>>
  /\ feedbackRating = 0

\* C7: in the feedback view a teacher of the roster is selected.
FeedbackViewHasTeacher ==
  currentView = "feedback" => selectedTeacher # null /\ selectedTeacher \in Roster

\* the form is open for teacher 2 after a submission for teacher 1
FeedbackViewHasTeacherWitness ==
  /\ currentView = "feedback"
  /\ selectedTeacher.id = 2
  /\ getFeedbackCount(feedbackData, 1) = 1

\* 'Anonymous N' with N in 1..1000, written without leading zeros
IsPseudonym(s) ==
  /\ Len(s) > Len(AnonymousPrefix)
  /\ SubSeq(s, 1, Len(AnonymousPrefix)) = <<"A","n","o","n","y","m","o","u","s"," ">>
  /\ LET digits == SubSeq(s, Len(AnonymousPrefix) + 1, Len(s))
     IN  /\ \A i \in 1..Len(digits) : digits[i] \in {"0","1","2","3","4","5","6","7","8","9"}
         /\ digits[1] # "0"
         /\ StringToNat(digits) >= 1
         /\ StringToNat(digits) <= 1000

\* C8: once mounted, anonymousId is 'Anonymous N' with N in 1..1000 and never
\* changes; every stored Feedback carries it, none carries ''.
PseudonymConstant ==
  /\ [](mounted => IsPseudonym(anonymousId))
  /\ [](\A fb \in AllFeedback : fb.anonymousId = anonymousId /\ fb.anonymousId # <<>>)
  /\ [][mounted => anonymousId' = anonymousId]_vars

\* two entries stored in a session whose pseudonym is 'Anonymous 1000'
PseudonymConstantWitness ==
  /\ mounted
  /\ anonymousId = <<"A","n","o","n","y","m","o","u","s"," ","1","0","0","0">>
  /\ totalFeedbackCount(feedbackData) = 2

\* C9: no two stored Feedback entries have the same id.
FeedbackIdsUnique ==
  \A k1, k2 \in DOMAIN feedbackData :
    \A i \in 1..Len(feedbackData[k1]) : \A j \in 1..Len(feedbackData[k2]) :
      (k1 # k2 \/ i # j) => feedbackData[k1][i].id # feedbackData[k2][j].id

RatingsOf(t) ==
  [i \in 1..getFeedbackCount(feedbackData, t) |-> feedbacksOf(feedbackData, t)[i].rating]

\* s is the one-decimal text of n tenths
IsOneDecimal(s, n) ==
  s = NatToString(n \div 10) \o <<".">> \o NatToString(n % 10)

\* n tenths is a nearest tenth of sum / len: no tenth is nearer (halfway
\* between two tenths, both are nearest)
NearestTenth(n, sum, len) ==
  /\ 20 * sum - len <= 2 * n * len
  /\ 2 * n * len <= 20 * sum + len

\* C10: averageRating is '0.0' and feedbackCount 0 for a teacher without
\* feedback; otherwise averageRating is the mean of the ratings rounded to
\* the nearest tenth, between 1.0 and 10.0; for ratings [6,8] it is '7.0'.
AverageRatingRounded ==
  \A t \in TeacherIds :
    LET avg == calculateAverageRating(feedbackData, t)
    IN  /\ feedbacksOf(feedbackData, t) = <<>> =>
             avg = <<"0", ".", "0">> /\ getFeedbackCount(feedbackData, t) = 0
        /\ feedbacksOf(feedbackData, t) # <<>> =>
             \E n \in 10..100 :
               /\ IsOneDecimal(avg, n)
               /\ NearestTenth(n, sumRatings(feedbacksOf(feedbackData, t)),
                               getFeedbackCount(feedbackData, t))
        /\ RatingsOf(t) = <<6, 8>> => avg = <<"7", ".", "0">>

\* teacher 1 holds the ratings 6 and 8, teacher 2 has no key in the mapping
AverageRatingWitness ==
  /\ RatingsOf(1) = <<6, 8>>
  /\ 2 \notin DOMAIN feedbackData
  /\ currentView = "feedback"

-----------------------------------------------------------------------------
(* C11..C20 *)

\* the counts of the six roster teachers, added up
RosterCountSum ==
  getFeedbackCount(feedbackData, 1) + getFeedbackCount(feedbackData, 2)
    + getFeedbackCount(feedbackData, 3) + getFeedbackCount(feedbackData, 4)
    + getFeedbackCount(feedbackData, 5) + getFeedbackCount(feedbackData, 6)

\* C11: totalFeedbackCount is the sum of the roster teachers' counts, every
\* key of the mapping is a roster id, and the total starts at 0 and grows by
\* one in exactly the successful submitFeedback steps.
TotalIsSumOfCounts ==
  /\ totalFeedbackCount(feedbackData) = 0
  /\ [](/\ totalFeedbackCount(feedbackData) = RosterCountSum
        /\ DOMAIN feedbackData \subseteq {1, 2, 3, 4, 5, 6})
  /\ [][totalFeedbackCount(feedbackData') =
          totalFeedbackCount(feedbackData)
            + (IF lastOp' = "submitFeedback" /\ FormValid THEN 1 ELSE 0)]_vars

\* two entries of one teacher: the total is 2 under a single key
TotalIsSumWitness ==
  /\ getFeedbackCount(feedbackData, 2) = 2
  /\ DOMAIN feedbackData = {2}
  /\ lastOp = "submitFeedback"

\* C12: the teachers list held in state stays the six seeded records in the
\* seeded order.
TeachersNeverMutated == teachers = SeedTeachers

\* the cards of the home view, in display order
Displayed ==
  filteredAndSortedTeachers(teachers, filterDepartment, searchQuery, sortBy, feedbackData)

DisplayedIds == [i \in 1..Len(Displayed) |-> Displayed[i].id]

\* C13: displayed teachers with equal sort keys are in seeded order (the
\* seeded order is the order of the ids); with sortBy feedbacks or rating,
\* no feedback, no department filter and a blank search the display is
\* 1,2,3,4,5,6.
TiesKeepSeedOrder ==
  /\ \A i, j \in 1..Len(Displayed) :
       (i < j /\ compareTeachers(Displayed[i], Displayed[j], sortBy, feedbackData) = 0)
         => Displayed[i].id < Displayed[j].id
  /\ (/\ sortBy \in {"feedbacks", "rating"}
      /\ feedbackData = <<>>
      /\ filterDepartment = <<"a", "l", "l">>
      /\ Blank(searchQuery))
       => DisplayedIds = <<1, 2, 3, 4, 5, 6>>

\* rank of the six names in ascending name order, by teacher id
NameRank == <<2, 6, 1, 4, 3, 5>>

\* C14: the displayed list is ordered by sortBy: feedbacks by non-increasing
\* count, rating by non-increasing numeric average, anything else by
\* non-decreasing name.
DisplayedOrderedBySortKey ==
  \A i, j \in 1..Len(Displayed) :
    i < j =>
      IF sortBy = "feedbacks"
      THEN Len(feedbacksOf(feedbackData, Displayed[i].id))
             >= Len(feedbacksOf(feedbackData, Displayed[j].id))
      ELSE IF sortBy = "rating"
      THEN NumberTenths(calculateAverageRating(feedbackData, Displayed[i].id))
             >= NumberTenths(calculateAverageRating(feedbackData, Displayed[j].id))
      ELSE NameRank[Displayed[i].id] <= NameRank[Displayed[j].id]

\* sorted by feedbacks, the teacher with three entries (last by name) comes
\* first and the one with a single entry second
DisplayedOrderedWitness ==
  /\ sortBy = "feedbacks"
  /\ Len(feedbacksOf(feedbackData, 2)) = 3
  /\ Len(feedbacksOf(feedbackData, 1)) = 1
  /\ Len(Displayed) = 6
  /\ Displayed[1].id = 2
  /\ Displayed[2].id = 1

DisplayedSet == {Displayed[i] : i \in 1..Len(Displayed)}

\* the roster teachers that pass the department selector
InDepartment ==
  {t \in Roster : filterDepartment = <<"a", "l", "l">> \/ t.department = filterDepartment}

\* C15: with a blank search the displayed teachers are the whole roster for
\* 'all' and otherwise exactly those of the selected department (ids 1 and 5
\* for Computer Science), each once, whatever sortBy and the feedback are.
DepartmentFilterExact ==
  Blank(searchQuery) =>
    /\ DisplayedSet = InDepartment
    /\ Len(Displayed) = Cardinality(InDepartment)
    /\ filterDepartment = <<"a", "l", "l">> => Len(Displayed) = 6
    /\ filterDepartment = <<"C","o","m","p","u","t","e","r"," ","S","c","i","e","n","c","e">>
         => {t.id : t \in DisplayedSet} = {1, 5}

\* Computer Science selected, sorted by rating, with feedback stored
DepartmentFilterWitness ==
  /\ filterDepartment = <<"C","o","m","p","u","t","e","r"," ","S","c","i","e","n","c","e">>
  /\ searchQuery = <<>>
  /\ sortBy = "rating"
  /\ Len(feedbacksOf(feedbackData, 1)) = 3
  /\ DisplayedIds = <<1, 5>>

\* the three searched fields of the roster, lower-cased, by teacher id
LowerFields ==
  [i \in 1..6 |-> <<toLowerCase(SeedTeachers[i].name),
                    toLowerCase(SeedTeachers[i].department),
                    toLowerCase(SeedTeachers[i].subject)>>]

\* q occurs in text as a run of consecutive characters
IsSubstring(q, text) ==
  \E off \in 0..(Len(text) - Len(q)) : \A k \in 1..Len(q) : text[off + k] = q[k]

\* the lower-cased query occurs in the teacher's name, department or subject
QueryFound(t) ==
  \E f \in 1..3 : IsSubstring(toLowerCase(searchQuery), LowerFields[t.id][f])

\* C16: a non-blank search keeps exactly the department-filtered teachers
\* whose name, department or subject contains the query, letter case aside;
\* a blank search keeps them all; 'kumar' in any case keeps Dr. Rajesh Kumar.
SearchKeepsMatches ==
  /\ ~Blank(searchQuery) => DisplayedSet = {t \in InDepartment : QueryFound(t)}
  /\ Blank(searchQuery) => DisplayedSet = InDepartment
  /\ (toLowerCase(searchQuery) = <<"k","u","m","a","r">> /\ SeedTeachers[1] \in InDepartment)
       => SeedTeachers[1] \in DisplayedSet

\* 'KuMAR' typed: only Dr. Rajesh Kumar is left
SearchKeepsMatchesWitness ==
  /\ searchQuery = <<"K","u","M","A","R">>
  /\ DisplayedIds = <<1>>
  /\ showSearch

\* C17: the feedback view lists the selected teacher's entries in reverse
\* insertion order, and a successful submission puts the new entry on top of
\* the entries listed before it, where the view finds it on every later visit.
NewestFeedbackFirst ==
  /\ [](currentView = "feedback" =>
          LET stored == feedbacksOf(feedbackData, selectedTeacher.id)
              shown == shownFeedback(feedbackData, selectedTeacher)
          IN  /\ Len(shown) = Len(stored)
              /\ \A i \in 1..Len(stored) : shown[Len(stored) + 1 - i] = stored[i]
              /\ \A i, j \in 1..Len(stored) :
                   i < j => \E p, q \in 1..Len(shown) :
                              p < q /\ shown[p] = stored[j] /\ shown[q] = stored[i])
  /\ [][(lastOp' = "submitFeedback" /\ FormValid) =>
          LET before == shownFeedback(feedbackData, selectedTeacher)
              after == shownFeedback(feedbackData', selectedTeacher')
          IN  /\ Len(after) = Len(before) + 1
              /\ after[1].comment = trim(feedbackText)
              /\ after[1].rating = feedbackRating
              /\ after[1].timestamp = now'
              /\ \A i \in 1..Len(before) : after[i + 1] = before[i]]_vars

\* back in the feedback view of a teacher with two entries, the one rated 1
\* stored before the one rated 10: the one rated 10 is on top
NewestFeedbackFirstWitness ==
  /\ currentView = "feedback"
  /\ selectedTeacher # null
  /\ Len(feedbacksOf(feedbackData, selectedTeacher.id)) = 2
  /\ feedbacksOf(feedbackData, selectedTeacher.id)[1].rating = 1
  /\ feedbacksOf(feedbackData, selectedTeacher.id)[2].rating = 10
  /\ shownFeedback(feedbackData, selectedTeacher)[1].rating = 10
  /\ lastOp = "none"

\* C18: the step from the feedback view back home empties the form (text ''
\* and rating 0), and whenever the feedback view is opened the form it shows
\* is empty.
FormResetOnReturnHome ==
  /\ [][(currentView = "feedback" /\ currentView' = "home") =>
          (feedbackText' = <<>> /\ feedbackRating' = 0)]_vars
  /\ [][(currentView # "feedback" /\ currentView' = "feedback") =>
          (feedbackText' = <<>> /\ feedbackRating' = 0)]_vars

\* the home controls are set as ControlSettings says (checked in the home
\* view's own specification)
ControlSettingsReached3 ==
  /\ filterVars = <<ComputerScience, "rating", <<"k", "u", "m", "a", "r">>, TRUE, "faculty">>
  /\ feedbackData = <<>>
  /\ teachers = teachersAfterRender(SeedTeachers, AllDepartments, <<>>, "name", <<>>)

ControlSettingsReached2 ==
  /\ filterVars = <<AllDepartments, "feedbacks", <<>>, FALSE, "reviews">>
  /\ feedbackData = <<>>
  /\ teachers = teachersAfterRender(SeedTeachers, AllDepartments, <<>>, "name", <<>>)

\* C19: a step that returns home (Back, Submit More) leaves selectedTeacher,
\* feedbackData and the five home controls as they were; selectedTeacher
\* changes only in a teacher-card step, which opens the feedback view for a
\* teacher of the roster.
ReturnHomeKeepsSelection ==
  [][/\ (currentView # "home" /\ currentView' = "home") =>
          /\ selectedTeacher' = selectedTeacher
          /\ selectedTeacher' # null
          /\ feedbackData' = feedbackData
          /\ filterDepartment' = filterDepartment
          /\ sortBy' = sortBy
          /\ searchQuery' = searchQuery
          /\ showSearch' = showSearch
          /\ activeStatsCard' = activeStatsCard
     /\ selectedTeacher' # selectedTeacher =>
          /\ currentView = "home"
          /\ currentView' = "feedback"
          /\ selectedTeacher' \in Roster
          /\ lastOp' = "none"]_vars

\* home again after a submission for teacher 1, the selection and the
\* controls still as they were set
ReturnHomeKeepsSelectionWitness ==
  /\ currentView = "home"
  /\ selectedTeacher = SeedTeachers[1]
  /\ Len(feedbacksOf(feedbackData, 1)) = 1
  /\ filterVars = <<ComputerScience, "rating", <<"k", "u", "m", "a", "r">>, TRUE, "faculty">>

\* the age of the stored entry of teacher 1, and the text shown for it
Elapsed == now - feedbackData[1][1].timestamp

ShownAge == shownAges(feedbackData, SeedTeachers[1], <<now>>)[1]

\* m is the number of whole minutes in Elapsed (floor, also below zero)
WholeMinutes(m) == m * 60000 <= Elapsed /\ Elapsed < (m + 1) * 60000

\* C20: with m the whole minutes elapsed, the age is 'Just now' for m < 1,
\* '{m}m ago' for 1 <= m < 60, '{floor(m/60)}h ago' for 60 <= m < 1440 and
\* '{floor(m/1440)}d ago' from there on; 30 s is 'Just now', 90 s '1m ago',
\* 59 min 59 s '59m ago', 60 min '1h ago', 1439 min '23h ago', 1440 min
\* '1d ago', and an entry from the future 'Just now'.
TimeAgoTiers ==
  LET m == Elapsed \div 60000
  IN  /\ WholeMinutes(m)
      /\ m < 1 => ShownAge = <<"J", "u", "s", "t", " ", "n", "o", "w">>
      /\ (1 <= m /\ m < 60) => ShownAge = NatToString(m) \o <<"m", " ", "a", "g", "o">>
      /\ (60 <= m /\ m < 1440) =>
           /\ ShownAge = NatToString(m \div 60) \o <<"h", " ", "a", "g", "o">>
           /\ (m \div 60) * 60 <= m /\ m < (m \div 60 + 1) * 60
      /\ 1440 <= m =>
           /\ ShownAge = NatToString(m \div 1440) \o <<"d", " ", "a", "g", "o">>
           /\ (m \div 1440) * 1440 <= m /\ m < (m \div 1440 + 1) * 1440
      /\ Elapsed = 30000 => ShownAge = <<"J", "u", "s", "t", " ", "n", "o", "w">>
      /\ Elapsed = 90000 => ShownAge = <<"1", "m", " ", "a", "g", "o">>
      /\ Elapsed = 3599000 => ShownAge = <<"5", "9", "m", " ", "a", "g", "o">>
      /\ Elapsed = 3600000 => ShownAge = <<"1", "h", " ", "a", "g", "o">>
      /\ Elapsed = 86340000 => ShownAge = <<"2", "3", "h", " ", "a", "g", "o">>
      /\ Elapsed = 86400000 => ShownAge = <<"1", "d", " ", "a", "g", "o">>
      /\ Elapsed < 0 => ShownAge = <<"J", "u", "s", "t", " ", "n", "o", "w">>

\* the feedback view of teacher 1 exactly one day after the entry was stored
TimeAgoTiersWitness ==
  /\ currentView = "feedback"
  /\ selectedTeacher = SeedTeachers[1]
  /\ Elapsed = 86400000
  /\ ShownAge = <<"1", "d", " ", "a", "g", "o">>

(* C21..C26 *)

\* the step is a click on the stat card named card
StatsCardStep(card) == lastOp' = "handleStatsCardClick" /\ activeStatsCard' = card

\* feedbackData, currentView, selectedTeacher and the pending form are as before
OutsideControlsUnchanged ==
  /\ feedbackData' = feedbackData
  /\ currentView' = currentView
  /\ selectedTeacher' = selectedTeacher
  /\ feedbackText' = feedbackText
  /\ feedbackRating' = feedbackRating

\* C21: a click on the Faculty stat card opens the search box, sets the
\* department to 'all' and the query to '' and marks the card, and leaves
\* sortBy, feedbackData, currentView, selectedTeacher and the form unchanged.
FacultyCardEffect ==
  [][StatsCardStep("faculty") =>
       /\ showSearch' = TRUE
       /\ filterDepartment' = <<"a", "l", "l">>
       /\ searchQuery' = <<>>
       /\ sortBy' = sortBy
       /\ OutsideControlsUnchanged]_vars

\* Faculty clicked over a department filter sorted by rating, with a text and
\* a rating pending in the form
FacultyCardWitness ==
  /\ lastOp = "handleStatsCardClick"
  /\ activeStatsCard = "faculty"
  /\ showSearch
  /\ sortBy = "rating"
  /\ feedbackText = <<"\t", "b", " ">> /\ feedbackRating = 10
  /\ selectedTeacher = SeedTeachers[1]

\* C22: a click on the Departments stat card closes the search box and marks
\* the card, and filterDepartment, searchQuery and sortBy keep their values; a
\* click on the Reviews stat card closes the search box and sets sortBy to
\* 'feedbacks', and filterDepartment and searchQuery keep their values.
DepartmentsAndReviewsCardEffect ==
  /\ [][StatsCardStep("departments") =>
          /\ showSearch' = FALSE
          /\ filterDepartment' = filterDepartment
          /\ searchQuery' = searchQuery
          /\ sortBy' = sortBy]_vars
  /\ [][StatsCardStep("reviews") =>
          /\ showSearch' = FALSE
          /\ sortBy' = "feedbacks"
          /\ filterDepartment' = filterDepartment
          /\ searchQuery' = searchQuery]_vars

\* Departments clicked with a department selected, a query typed and the
\* list sorted by rating
DepartmentsCardWitness ==
  /\ lastOp = "handleStatsCardClick"
  /\ activeStatsCard = "departments"
  /\ ~showSearch
  /\ filterDepartment = <<"C","o","m","p","u","t","e","r"," ","S","c","i","e","n","c","e">>
  /\ searchQuery = <<"c", "h", "e", "m">>
  /\ sortBy = "rating"

\* C23: Clear All sets, in one step and from any values, the query to '', the
\* department to 'all', the sort to 'name', no stat card and the search box
\* closed, and leaves feedbackData, selectedTeacher, currentView and the form
\* unchanged; the state it leaves is one a second Clear All would not change.
ClearAllRestoresDefaults ==
  [][lastOp' = "clearAllFilters" =>
       /\ searchQuery' = <<>>
       /\ filterDepartment' = <<"a", "l", "l">>
       /\ sortBy' = "name"
       /\ activeStatsCard' = "null"
       /\ showSearch' = FALSE
       /\ OutsideControlsUnchanged
       /\ teachersAfterRender(teachers', <<"a", "l", "l">>, <<>>, "name", feedbackData')
            = teachers']_vars

\* Clear All has just put every control back, the pending form untouched
ClearAllWitness ==
  /\ lastOp = "clearAllFilters"
  /\ filterVars = <<AllDepartments, "name", <<>>, FALSE, "null">>
  /\ feedbackText = <<"\t", "b", " ">> /\ feedbackRating = 10
  /\ DisplayedIds = <<3, 1, 5, 4, 6, 2>>

\* C24: submitFeedback runs only from the feedback view with a teacher
\* selected, a non-blank text and a non-zero rating, so every run stores the
\* entry and shows the success view, and none of the three alerts is ever
\* raised.
EverySubmitSucceeds ==
  /\ [](alertMsg \notin {PleaseSelectTeacher, PleaseEnterFeedback, PleaseProvideRating})
  /\ [](alertMsg = "none")
  /\ [][lastOp' = "submitFeedback" =>
          /\ currentView = "feedback"
          /\ selectedTeacher # null
          /\ trim(feedbackText) # <<>>
          /\ feedbackRating # 0
          /\ currentView' = "success"
          /\ totalFeedbackCount(feedbackData') = totalFeedbackCount(feedbackData) + 1]_vars

\* a second review submitted from the form, the first for the other teacher
EverySubmitSucceedsWitness ==
  /\ lastOp = "submitFeedback"
  /\ currentView = "success"
  /\ alertMsg = "none"
  /\ DOMAIN feedbackData = {1, 2}
  /\ selectedTeacher = SeedTeachers[2]

\* C25: the search restricts the list whether or not the search box is open:
\* the Departments or Reviews card, clicked over a non-blank query, closes the
\* box and keeps the query, and with the box closed the list still holds only
\* the teachers that match the query.
HiddenQueryStillFilters ==
  /\ []((~showSearch /\ ~Blank(searchQuery)) =>
          /\ \A t \in DisplayedSet : QueryFound(t)
          /\ \A t \in InDepartment : ~QueryFound(t) => t \notin DisplayedSet)
  /\ [][((StatsCardStep("departments") \/ StatsCardStep("reviews")) /\ ~Blank(searchQuery)) =>
          /\ showSearch' = FALSE
          /\ searchQuery' = searchQuery]_vars

\* the box closed by the Reviews card over the query 'kumar', every
\* department selected: Dr. Rajesh Kumar alone is listed
HiddenQueryWitness ==
  /\ showSearch = FALSE
  /\ searchQuery = <<"k", "u", "m", "a", "r">>
  /\ activeStatsCard = "reviews"
  /\ lastOp = "handleStatsCardClick"
  /\ filterDepartment = <<"a", "l", "l">>
  /\ DisplayedIds = <<1>>

\* what the list would be with the query trimmed
DisplayedForTrimmedQuery ==
  filteredAndSortedTeachers(teachers, filterDepartment, trim(searchQuery), sortBy, feedbackData)

\* C26: a non-blank query is matched with its leading and trailing whitespace:
\* every listed teacher has a field that contains the whole query, spaces
\* included; 'kumar ' lists nobody, ' kumar' lists Dr. Rajesh Kumar, and for
\* 'kumar ' the list differs from the list for the trimmed query.
RawQueryMatched ==
  /\ ~Blank(searchQuery) =>
       \A t \in DisplayedSet :
          \E f \in 1..3 : IsSubstring(toLowerCase(searchQuery), LowerFields[t.id][f])
  /\ searchQuery = <<"k", "u", "m", "a", "r", " ">> => Displayed = <<>>
  /\ (searchQuery = <<" ", "k", "u", "m", "a", "r">> /\ SeedTeachers[1] \in InDepartment)
       => DisplayedIds = <<1>>
  /\ (searchQuery = <<"k", "u", "m", "a", "r", " ">> /\ SeedTeachers[1] \in InDepartment)
       => /\ DisplayedForTrimmedQuery # Displayed
          /\ Len(DisplayedForTrimmedQuery) = 1
          /\ DisplayedForTrimmedQuery[1].id = 1

\* 'kumar ' typed with every department selected: nobody is listed, though
\* 'kumar' would list Dr. Rajesh Kumar
RawQueryWitness ==
  /\ searchQuery = <<"k", "u", "m", "a", "r", " ">>
  /\ filterDepartment = <<"a", "l", "l">>
  /\ Displayed = <<>>
  /\ Len(DisplayedForTrimmedQuery) = 1
  /\ lastOp = "handleSearchChange"

====
